---- MODULE Spec2Model ----
(***************************************************************************)
(* Batch orchestration of the voice-call server.                           *)
(*                                                                         *)
(*  - BatchOperationService: the process-wide map of batch operations,     *)
(*    their per-target results, counters, status and 'complete' events.    *)
(*  - TwilioCallService / TwilioSMSService: submission of a batch and the  *)
(*    drain loop (processBatchQueue) that starts the targets in chunks.    *)
(*                                                                         *)
(* Spec       the methods of BatchOperationService called in any order.    *)
(* SpecDrain  batches submitted to the two services and drained by them.   *)
(* SpecSession  one call session (OpenAICallHandler or                     *)
(*            SimpleElevenLabsHandler) driven by its two sockets.          *)
(* SpecSessionIVR  the same session, the IVR navigation of the OpenAI     *)
(*            event service attachable through its setters.                *)
(* SpecNav    one call under IVRNavigationService and                      *)
(*            ProviderSwitchService, their methods called in any order.    *)
(* SpecRegistry  the sessions of SessionManagerService.                    *)
(* SpecCalls  call batches drained by TwilioCallService and the calls      *)
(*            placed for their targets, from creation to their end.        *)
(* FairSpecCallDrain  the call service alone, its drain steps scheduled    *)
(*            fairly.                                                      *)
(* SpecAnyConcurrency, FairSpecAnyConcurrency  both services with every    *)
(*            maxConcurrent the tool schemas accept.                       *)
(***************************************************************************)
EXTENDS Integers, Sequences, FiniteSets, TLC

VARIABLES
    operations,         \* BatchOperationService.operations: batchId -> BatchOperation
    completeEvents,     \* per batch, the number of 'complete' events emitted
    lastOp,             \* the last method called on the service directly, and
                        \* the number of such calls so far
    batchQueue,         \* per service, batchCallQueue / batchSMSQueue in insertion order
    isProcessingBatch,  \* per service, the isProcessingBatch flag
    loops,              \* per service, the running activations of processBatchQueue
    submissions,        \* per batch, how it was submitted and which targets were attempted
    session,            \* one call session: its CallState, its two sockets, its
                        \* timers, and what it has sent and published
    nav,                \* one call under IVRNavigationService and
                        \* ProviderSwitchService: its ivrState, its navigation
                        \* timer, its provider connections, its pending switches
    registry,           \* SessionManagerService.activeSessions and the Twilio
                        \* sockets of the calls
    calls               \* the calls placed for the targets of call batches:
                        \* the provider of each batch, each call's line, its
                        \* handler and its transcripts

vars == <<operations, completeEvents, lastOp,
          batchQueue, isProcessingBatch, loops, submissions, session,
          nav, registry, calls>>

drainVars == <<batchQueue, isProcessingBatch, loops, submissions>>

----------------------------------------------------------------------------
(* Bounds *)

MaxBatches == 2     \* batches submitted in one behaviour
MaxPhone == 2       \* distinct phone numbers
MaxTotal == 2       \* totalTargets of an operation created directly
MaxCalls == 5       \* calls of the service's methods in one behaviour
MaxTargets == 5     \* targets submitted in one behaviour, all batches together
MaxConc == 2        \* the maxConcurrent a request supplies

BatchIds == 1..MaxBatches
Services == {"call", "sms"}
Phones == 1..MaxPhone

----------------------------------------------------------------------------
(* Data model *)

BatchOperationType == {"call", "sms"}
BatchOperationStatus ==
    {"pending", "in_progress", "completed", "failed", "partial_complete"}
BatchResultStatus == {"queued", "in_progress", "retrying", "success", "failed"}

TerminalStatus == {"completed", "failed", "partial_complete"}

\* retryCount?: number -- the value of an absent retryCount
RetryUndefined == -1

\* A BatchResult: endTime and error record whether the optional field is set.
BatchResult(phoneNumber, status, retryCount, endTime, error) ==
    [phoneNumber |-> phoneNumber, status |-> status, retryCount |-> retryCount,
     endTime |-> endTime, error |-> error]

\* operation.results.findIndex(r => r.phoneNumber === phoneNumber), 1-based;
\* 0 stands for the -1 of a failed search.
FindIndex(results, phoneNumber) ==
    IF \E i \in 1..Len(results) : results[i].phoneNumber = phoneNumber
    THEN CHOOSE i \in 1..Len(results) :
            /\ results[i].phoneNumber = phoneNumber
            /\ \A j \in 1..(i - 1) : results[j].phoneNumber # phoneNumber
    ELSE 0

CountStatus(results, status) ==
    Cardinality({i \in 1..Len(results) : results[i].status = status})

\* The state of the service: the operations map and, per batch, the number of
\* 'complete' events emitted so far.
Service(ops, events) == [operations |-> ops, completeEvents |-> events]

\* The element of a one-element set. Value({F(x) : x \in {e}}) is F(e) with e
\* evaluated once, however often F uses it.
Value(singleton) == CHOOSE v \in singleton : TRUE

CreateOperation(S, batchId, type, totalTargets, maxConcurrent) ==
    Service(S.operations @@ (batchId :>
                [type |-> type, status |-> "pending",
                 totalTargets |-> totalTargets,
                 maxConcurrent |-> maxConcurrent,
                 completedTargets |-> 0, failedTargets |-> 0,
                 results |-> <<>>]),
            S.completeEvents @@ (batchId :> 0))

UpdateBatchStatus(S, batchId, status) ==
    Value({IF batchId \notin DOMAIN s.operations THEN s
           ELSE Service([s.operations EXCEPT ![batchId].status = status],
                        s.completeEvents) : s \in {S}})

UpsertResultAlwaysPush(results, result) == Append(results, result)

\* Update existing result or add new one
UpsertResult(results, result) ==
    LET existingIndex == FindIndex(results, result.phoneNumber)
    IN  IF existingIndex > 0
        THEN [results EXCEPT ![existingIndex] = result]
        ELSE Append(results, result)

CompletionStatus(completedTargets, failedTargets) ==
    IF failedTargets = 0 THEN "completed"
    ELSE IF completedTargets = 0 THEN "failed"
    ELSE "partial_complete"

AddBatchResult(S, batchId, result) ==
    LET Added(s) ==
          IF batchId \notin DOMAIN s.operations THEN s
          ELSE
          LET operation == s.operations[batchId]
              results1 == UpsertResult(operation.results, result)
              completed1 == IF result.status = "success"
                            THEN operation.completedTargets + 1
                            ELSE operation.completedTargets
              failed1 == IF result.status # "success" /\ result.status = "failed"
                         THEN operation.failedTargets + 1
                         ELSE operation.failedTargets
              totalProcessed == completed1 + failed1
              isComplete == totalProcessed >= operation.totalTargets
          IN  Service(
                [s.operations EXCEPT ![batchId] =
                    [operation EXCEPT
                       !.results = results1,
                       !.completedTargets = completed1,
                       !.failedTargets = failed1,
                       !.status = IF isComplete
                                  THEN CompletionStatus(completed1, failed1)
                                  ELSE operation.status]],
                [s.completeEvents EXCEPT ![batchId] =
                    IF isComplete THEN @ + 1 ELSE @])
    IN  Value({Added(s) : s \in {S}})

\* Object.assign(result, updates): every own property of updates, including
\* one whose value is undefined, overwrites the property of result.
ObjectAssign(result, updates) == updates @@ result

RecalculateCounters(operation) ==
    [operation EXCEPT
       !.completedTargets = CountStatus(operation.results, "success"),
       !.failedTargets = CountStatus(operation.results, "failed")]

UpdateBatchResult(S, batchId, phoneNumber, updates) ==
    LET Updated(s) ==
          IF batchId \notin DOMAIN s.operations THEN s
          ELSE
          LET operation == s.operations[batchId]
              index == FindIndex(operation.results, phoneNumber)
          IN  IF index = 0 THEN s
              ELSE
              LET updated == [operation EXCEPT
                                !.results[index] = ObjectAssign(@, updates)]
              IN  Service(
                    [s.operations EXCEPT ![batchId] =
                        IF "status" \in DOMAIN updates
                        THEN RecalculateCounters(updated)
                        ELSE updated],
                    s.completeEvents)
    IN  Value({Updated(s) : s \in {S}})

QueueBatchTarget(S, batchId, phoneNumber) ==
    AddBatchResult(S, batchId,
        BatchResult(phoneNumber, "queued", RetryUndefined, FALSE, FALSE))

StartBatchTarget(S, batchId, phoneNumber) ==
    UpdateBatchResult(S, batchId, phoneNumber, [status |-> "in_progress"])

CompleteBatchTarget(S, batchId, phoneNumber) ==
    UpdateBatchResult(S, batchId, phoneNumber,
        [status |-> "success", endTime |-> TRUE])

\* failBatchTarget(batchId, phoneNumber, error) is always called without its
\* optional retryCount argument, so the update carries retryCount: undefined.
FailBatchTarget(S, batchId, phoneNumber) ==
    UpdateBatchResult(S, batchId, phoneNumber,
        [status |-> "failed", error |-> TRUE, retryCount |-> RetryUndefined,
         endTime |-> TRUE])

\* (result.retryCount || 0)
RetryCountOrZero(result) ==
    IF result.retryCount = RetryUndefined THEN 0 ELSE result.retryCount

RetryUpdatesNoIncrement(result) ==
    [status |-> "retrying", retryCount |-> RetryCountOrZero(result),
     endTime |-> FALSE, error |-> FALSE]

RetryUpdates(result) ==
    [status |-> "retrying", retryCount |-> RetryCountOrZero(result) + 1,
     endTime |-> FALSE, error |-> FALSE]

RetryBatchTarget(S, batchId, phoneNumber) ==
    LET Retried(s) ==
          IF batchId \notin DOMAIN s.operations THEN s
          ELSE
          LET operation == s.operations[batchId]
              index == FindIndex(operation.results, phoneNumber)
          IN  IF index = 0 THEN s
              ELSE UpdateBatchResult(s, batchId, phoneNumber,
                                     RetryUpdates(operation.results[index]))
    IN  Value({Retried(s) : s \in {S}})

----------------------------------------------------------------------------
(* Call session: CallState, the sockets and the timers of one handler *)

MaxTime == 2        \* the largest media timestamp of a telephony frame
MaxItem == 1        \* assistant audio items of the provider
MaxDtmf == 2        \* DTMF sends scheduled for one call
MaxEndCalls == 2    \* times the provider's transcript asks to end the call

\* responseStartTimestampTwilio: number | null = null
Null == -1

Handlers == {"openai", "elevenlabs"}

\* new CallState(callType) and the fields of the handler around it.
\*   twilioWs, providerWs     the state of the two sockets
\*   providerSetup            what the provider session was initialised with:
\*                            nothing yet, the defaults, or this call's
\*                            parameters (context, prompt) of the start frame
\*   initTimer, closeTimers   pending setTimeout callbacks
\*   endCalls                 pending TwilioCallService.endCall updates
\*   goodbyes                 times endCall has run
\*   batchId                  callState.batchId: 0 while it is not set
\*   relaying                 an assistant utterance is being relayed
\*   sent                     the frames the handler of the last event sent:
\*                            "audio" and "clear" to the telephony leg,
\*                            "callerAudio", "truncate" and "config" to the
\*                            provider
\*   truncate                 the arguments of that truncate: <<item, elapsed>>
\*   ping                     the event id of the ping frame handled last
\*   pongs                    the event ids of the pong frames its handler sent
\*   endedEvents, errorEvents 'call:ended' / 'call:error' published
\*   triggers                 the end triggers that have occurred
\*   connectFailed            connecting to the provider has failed
\*   last                     the event handled last
CallState(handler) ==
    [handler |-> handler,
     twilioWs |-> "open",
     providerWs |-> IF handler = "openai" THEN "connecting" ELSE "none",
     streamSid |-> FALSE,
     callSid |-> FALSE,
     batchId |-> 0,
     latestMediaTimestamp |-> 0,
     responseStartTimestampTwilio |-> Null,
     lastAssistantItemId |-> 0,
     markQueue |-> <<>>,
     providerSetup |-> "none",
     initTimer |-> FALSE,
     closeTimers |-> 0,
     endCalls |-> 0,
     goodbyes |-> 0,
     relaying |-> FALSE,
     sent |-> {},
     truncate |-> <<>>,
     ping |-> "",
     pongs |-> <<>>,
     ivrNavigationService |-> FALSE,    \* OpenAIEventService.ivrNavigationService is set
     twilioWsService |-> FALSE,         \* OpenAIEventService.twilioWsService is set
     dtmfTimers |-> 0,                  \* pending timers of handleAudioTranscriptDone
     endedEvents |-> 0,
     errorEvents |-> 0,
     triggers |-> {},
     connectFailed |-> FALSE,
     last |-> "created"]

\* No Twilio stream has connected yet.
NoSession == [handler |-> "none"]

----------------------------------------------------------------------------
(* IVR navigation and provider switch: the rules, the transcripts, the      *)
(* state of one call                                                        *)

MaxAnyTargets == 3  \* targets submitted with an arbitrary maxConcurrent
MaxBack == 3        \* how far below zero the index of a drain loop is followed
MaxLive == 3        \* targets of the call batches whose calls are followed
MaxNavOps == 4      \* calls of the two services' methods for one call
MaxSockets == 3     \* Twilio streams that connect in one behaviour

\* COMMON_IVR_RULES in list order: the digit pressed and the confidence in
\* tenths.
COMMON_IVR_RULES ==
    << [action |-> "0", confidence |-> 9],   \* press 0 for operator|...
       [action |-> "0", confidence |-> 9],   \* press 0 to speak
       [action |-> "0", confidence |-> 9],   \* operator.*press 0
       [action |-> "1", confidence |-> 8],   \* press 1 for sales
       [action |-> "2", confidence |-> 8],   \* press 2 for support|...
       [action |-> "3", confidence |-> 8],   \* press 3 for billing
       [action |-> "9", confidence |-> 7],   \* press 9 to repeat
       [action |-> "*", confidence |-> 7],   \* press * to skip
       [action |-> "#", confidence |-> 7],   \* press # to continue
       [action |-> "1", confidence |-> 9],   \* for english.*press 1
       [action |-> "1", confidence |-> 9] >> \* para espanol.*oprima 2

\* The transcripts processed, each with what the regular expressions and
\* phrases of the service make of it: whether an ivrIndicators pattern
\* matches (detectIVRSystem), whether a human phrase or pattern matches
\* (detectHuman), the rules whose pattern matches, and its length.
\*  1 "Thank you for calling. Press 1 for sales, press 0 for an operator"
\*  2 "operator, press 0"
\*  3 "Hi, this is Sarah, how can I help you today?"
\*  4 "Press 1 for sales. For English press 1"
\*  5 "For English press 1. Press 0 for operator"
\*  6 "Hello, press 3 for billing"
\*  7 "Hello, thank you for calling"
\*  8 "Please hold"
\*  9 "press * to skip"
TranscriptTable ==
    << [ivr |-> TRUE,  human |-> FALSE, rules |-> {4},     length |-> 65],
       [ivr |-> TRUE,  human |-> FALSE, rules |-> {3},     length |-> 17],
       [ivr |-> FALSE, human |-> TRUE,  rules |-> {},      length |-> 44],
       [ivr |-> TRUE,  human |-> FALSE, rules |-> {4, 10}, length |-> 38],
       [ivr |-> TRUE,  human |-> FALSE, rules |-> {1, 10}, length |-> 41],
       [ivr |-> TRUE,  human |-> TRUE,  rules |-> {6},     length |-> 26],
       [ivr |-> TRUE,  human |-> TRUE,  rules |-> {},      length |-> 28],
       [ivr |-> FALSE, human |-> FALSE, rules |-> {},      length |-> 11],
       [ivr |-> FALSE, human |-> FALSE, rules |-> {8},     length |-> 15] >>

Transcripts == DOMAIN TranscriptTable

\* DEFAULT_IVR_CONFIG.defaultAction
DefaultAction == "0"

\* transcript.substring(0, 50): the transcript and how much of it is kept
SnippetLength == 50

Snippet(transcript) ==
    [of |-> transcript,
     length |-> IF TranscriptTable[transcript].length < SnippetLength
                THEN TranscriptTable[transcript].length
                ELSE SnippetLength]

\* The value of a socket field of a connections object
SocketStates == {"undefined", "connecting", "open", "closed"}

\* ivrState of new CallState(), IVRNavigationService.ivrTimeouts and
\* ProviderSwitchService.activeConnections for the call's callSid.
\*   ivrTimeout         a timer of setIVRTimeout is pending
\*   objects            the connections objects created so far
\*   activeConnections  the object the map holds for the callSid, 0: none
\*   switches           the activations of switchToElevenLabs that wait
\*   ended              the call has been ended
\*   ops                methods called so far
\*   last               the method or callback that ran last, its transcript,
\*                      the rule it returned (0: null), the digit of the
\*                      event it emitted
\*   emitted            the events it emitted
\*   quiet              no rule has matched and no human has been detected
\*                      since the navigation timer was set
\*   switched           of the switchToElevenLabs activation that returned
\*                      in the last step: its result, the ElevenLabsService
\*                      instances started, the context messages sent, the
\*                      outgoing and the target socket before and after
NewCallState ==
    [ivrState |-> [isNavigating |-> FALSE,
                   humanDetected |-> FALSE,
                   currentProvider |-> "openai",
                   menuLevel |-> 0,
                   optionsHeard |-> <<>>,
                   actionsToken |-> <<>>],
     ivrTimeout |-> FALSE,
     objects |-> <<>>,
     activeConnections |-> 0,
     switches |-> <<>>,
     ended |-> FALSE,
     ops |-> 0,
     last |-> [op |-> "none", transcript |-> 0, returned |-> 0, action |-> ""],
     emitted |-> {},
     quiet |-> TRUE,
     switched |-> <<>>]

\* new SessionManagerService(): no session, no Twilio stream connected yet.
\*   sockets            per Twilio stream: "none", "open" or "closed"
\*   activeSessions     key -> the stream whose handler the map holds
\*   activeConnections  ProviderSwitchService.activeConnections: per callSid
\*                      (one per stream) the providers registered
NoSessions ==
    [sockets |-> [ws \in 1..MaxSockets |-> "none"],
     activeSessions |-> <<>>,
     activeConnections |-> [ws \in 1..MaxSockets |-> {}]]

\* No call has been placed for a batch.
\*   provider  per call batch, the provider of its request
\*   live      the calls Twilio has created, in the order of their creation
NoCalls == [provider |-> <<>>, live |-> <<>>]

----------------------------------------------------------------------------
(* The service called directly, in any order *)

NoOp == [op |-> "none", batchId |-> 0, phoneNumber |-> 0, existed |-> FALSE,
         seq |-> 0]

Current == Service(operations, completeEvents)

Commit(S) ==
    \E s \in {S} :
        /\ operations' = s.operations
        /\ completeEvents' = s.completeEvents

Present(batchId, phoneNumber) ==
    /\ batchId \in DOMAIN operations
    /\ FindIndex(operations[batchId].results, phoneNumber) > 0

\* One more direct call: the method, its arguments, and whether the target
\* was among the results of the batch when it was called.
Called(op, batchId, phoneNumber) ==
    /\ lastOp.seq < MaxCalls
    /\ lastOp' = [op |-> op, batchId |-> batchId, phoneNumber |-> phoneNumber,
                  existed |-> Present(batchId, phoneNumber),
                  seq |-> lastOp.seq + 1]

\* uuidv4(): an id no operation has yet
FreshBatchId == Cardinality(DOMAIN operations) + 1

\* Results a caller of addBatchResult builds: endTime is set on a finished
\* result and error on a failed one.
NewResults ==
    {BatchResult(p, s, RetryUndefined, s \in {"success", "failed"}, s = "failed") :
        p \in Phones, s \in BatchResultStatus}

DoCreateBatchOperation ==
    \E type \in {"call"}, totalTargets \in 1..MaxTotal :
        /\ DOMAIN operations = {}
        /\ Commit(CreateOperation(Current, FreshBatchId, type, totalTargets, 1))
        /\ Called("createBatchOperation", FreshBatchId, 0)
        /\ UNCHANGED <<drainVars, session, nav, registry, calls>>

DoQueueBatchTarget ==
    \E batchId \in DOMAIN operations, phoneNumber \in Phones :
        /\ Commit(QueueBatchTarget(Current, batchId, phoneNumber))
        /\ Called("queueBatchTarget", batchId, phoneNumber)
        /\ UNCHANGED <<drainVars, session, nav, registry, calls>>

DoAddBatchResult ==
    \E batchId \in DOMAIN operations, result \in NewResults :
        /\ Commit(AddBatchResult(Current, batchId, result))
        /\ Called("addBatchResult", batchId, result.phoneNumber)
        /\ UNCHANGED <<drainVars, session, nav, registry, calls>>

DoStartBatchTarget ==
    \E batchId \in DOMAIN operations, phoneNumber \in Phones :
        /\ Commit(StartBatchTarget(Current, batchId, phoneNumber))
        /\ Called("startBatchTarget", batchId, phoneNumber)
        /\ UNCHANGED <<drainVars, session, nav, registry, calls>>

DoCompleteBatchTarget ==
    \E batchId \in DOMAIN operations, phoneNumber \in Phones :
        /\ Commit(CompleteBatchTarget(Current, batchId, phoneNumber))
        /\ Called("completeBatchTarget", batchId, phoneNumber)
        /\ UNCHANGED <<drainVars, session, nav, registry, calls>>

DoFailBatchTarget ==
    \E batchId \in DOMAIN operations, phoneNumber \in Phones :
        /\ Commit(FailBatchTarget(Current, batchId, phoneNumber))
        /\ Called("failBatchTarget", batchId, phoneNumber)
        /\ UNCHANGED <<drainVars, session, nav, registry, calls>>

DoRetryBatchTarget ==
    \E batchId \in DOMAIN operations, phoneNumber \in Phones :
        /\ Commit(RetryBatchTarget(Current, batchId, phoneNumber))
        /\ Called("retryBatchTarget", batchId, phoneNumber)
        /\ UNCHANGED <<drainVars, session, nav, registry, calls>>

Init ==
    /\ operations = <<>>
    /\ completeEvents = <<>>
    /\ lastOp = NoOp
    /\ batchQueue = [svc \in Services |-> <<>>]
    /\ isProcessingBatch = [svc \in Services |-> FALSE]
    /\ loops = [svc \in Services |-> <<>>]
    /\ submissions = <<>>
    /\ session = NoSession
    /\ nav = NewCallState
    /\ registry = NoSessions
    /\ calls = NoCalls

Next ==
    \/ DoCreateBatchOperation
    \/ DoQueueBatchTarget
    \/ DoAddBatchResult
    \/ DoStartBatchTarget
    \/ DoCompleteBatchTarget
    \/ DoFailBatchTarget
    \/ DoRetryBatchTarget

Spec == Init /\ [][Next]_vars

----------------------------------------------------------------------------
(* TwilioCallService.makeBatchCalls / TwilioSMSService.sendBatchSMS and the *)
(* drain loop processBatchQueue                                             *)

\* An optional number: <<>> when absent, <<n>> when supplied.
Absent == <<>>
Some(n) == <<n>>

\* const { ..., maxConcurrent = 1 } = request
DefaultOne(maxConcurrent) ==
    IF maxConcurrent = Absent THEN 1 ELSE maxConcurrent[1]

\* call: config.maxConcurrent || 1        sms: const { maxConcurrent = 1 } = request
LoopMaxConcurrent(svc, maxConcurrent) ==
    IF svc = "call"
    THEN IF maxConcurrent = Absent \/ maxConcurrent[1] = 0
         THEN 1 ELSE maxConcurrent[1]
    ELSE DefaultOne(maxConcurrent)

\* Array.prototype.slice: the relative index clamped into 0..len
SliceIndex(len, k) ==
    IF k < 0 THEN (IF len + k < 0 THEN 0 ELSE len + k)
    ELSE (IF k > len THEN len ELSE k)

ChunkOneMore(targets, i, maxConcurrent) ==
    {k \in 0..(Len(targets) - 1) :
        /\ SliceIndex(Len(targets), i) <= k
        /\ k < SliceIndex(Len(targets), i + maxConcurrent + 1)}

\* targets.slice(i, i + maxConcurrent), as the set of 0-based positions
Chunk(targets, i, maxConcurrent) ==
    {k \in 0..(Len(targets) - 1) :
        /\ SliceIndex(Len(targets), i) <= k
        /\ k < SliceIndex(Len(targets), i + maxConcurrent)}

RemoveAt(seq, p) == SubSeq(seq, 1, p - 1) \o SubSeq(seq, p + 1, Len(seq))

QueuePos(queue, batchId) ==
    IF \E p \in 1..Len(queue) : queue[p].batchId = batchId
    THEN CHOOSE p \in 1..Len(queue) : queue[p].batchId = batchId
    ELSE 0

\* The part of the process one service's code reads and writes.
World(svc) ==
    [S |-> Current, queue |-> batchQueue[svc], flag |-> isProcessingBatch[svc],
     loops |-> loops[svc], submissions |-> submissions]

CommitWorld(svc, W) ==
    \E w \in {W} :
        /\ operations' = w.S.operations
        /\ completeEvents' = w.S.completeEvents
        /\ batchQueue' = [batchQueue EXCEPT ![svc] = w.queue]
        /\ isProcessingBatch' = [isProcessingBatch EXCEPT ![svc] = w.flag]
        /\ loops' = [loops EXCEPT ![svc] = w.loops]
        /\ submissions' = w.submissions

DeleteEntryKeepCursor(W, batchId) ==
    LET Deleted(w) ==
          LET p == QueuePos(w.queue, batchId)
          IN  IF p = 0 THEN w ELSE [w EXCEPT !.queue = RemoveAt(@, p)]
    IN  Value({Deleted(w) : w \in {W}})

\* Map.delete(batchId); an iterator over the map goes on with the entries
\* that follow the deleted one.
DeleteEntry(W, batchId) ==
    LET Deleted(w) ==
          LET p == QueuePos(w.queue, batchId)
          IN  IF p = 0 THEN w
              ELSE [w EXCEPT
                      !.queue = RemoveAt(@, p),
                      !.loops = [n \in DOMAIN @ |->
                                   IF @[n].cursor >= p
                                   THEN [@[n] EXCEPT !.cursor = @ - 1]
                                   ELSE @[n]]]
    IN  Value({Deleted(w) : w \in {W}})

\* for (const target of targets) queueBatchTarget(batchId, target.phoneNumber)
RECURSIVE QueueTargets(_, _, _, _)
QueueTargets(S, batchId, targets, k) ==
    IF k > Len(targets) THEN S
    ELSE Value({QueueTargets(s, batchId, targets, k + 1) :
                  s \in {QueueBatchTarget(S, batchId, targets[k])}})

\* The synchronous part of the callbacks of chunk.map: the SMS callback calls
\* startBatchTarget before its first await, the call callback changes nothing
\* before awaiting the placement.
RECURSIVE StartTargets(_, _, _, _, _)
StartTargets(S, svc, batchId, targets, todo) ==
    IF todo = {} \/ svc = "call" THEN S
    ELSE LET k == CHOOSE x \in todo : \A y \in todo : x <= y
         IN  Value({StartTargets(s, svc, batchId, targets, todo \ {k}) :
                      s \in {StartBatchTarget(S, batchId, targets[k + 1])}})

\* const chunk = targets.slice(i, i + maxConcurrent);
\* const promises = chunk.map(async ...); await Promise.all(promises)
StartChunk(W, svc, n) ==
    LET Begun(w, loop, chunk) ==
          [w EXCEPT
             !.S = StartTargets(@, svc, loop.batchId, loop.targets, chunk),
             !.loops[n].pending = chunk,
             !.loops[n].pc = "await",
             !.submissions[loop.batchId].attempts =
                 [k \in DOMAIN @ |-> IF (k - 1) \in chunk THEN @[k] + 1 ELSE @[k]]]
    IN  Value({Begun(w, w.loops[n],
                       Chunk(w.loops[n].targets, w.loops[n].i,
                             w.loops[n].maxConcurrent)) : w \in {W}})

\* The for-of over the queue from the iterator's cursor on, up to the first
\* await or to the end of the loop (finally: isProcessingBatch = false).
RECURSIVE ProcessEntries(_, _, _)
ProcessEntries(W, svc, n) ==
    LET Entered(w, entry) ==
          [w EXCEPT
             !.S = UpdateBatchStatus(@, entry.batchId, "in_progress"),
             !.loops[n] =
                [pc |-> "await", cursor |-> w.loops[n].cursor + 1,
                 batchId |-> entry.batchId,
                 targets |-> entry.targets,
                 maxConcurrent |-> LoopMaxConcurrent(svc, entry.maxConcurrent),
                 i |-> 0, pending |-> {}]]
        Iterated(w) ==
          IF w.loops[n].cursor < Len(w.queue)
          THEN LET entry == w.queue[w.loops[n].cursor + 1]
               IN  IF 0 < Len(entry.targets)
                   THEN StartChunk(Entered(w, entry), svc, n)
                   ELSE ProcessEntries(
                            DeleteEntry(Entered(w, entry), entry.batchId),
                            svc, n)
          ELSE [w EXCEPT !.flag = FALSE, !.loops = RemoveAt(@, n)]
    IN  Value({Iterated(w) : w \in {W}})

NewLoop ==
    [pc |-> "await", cursor |-> 0, batchId |-> 0, targets |-> <<>>,
     maxConcurrent |-> 1, i |-> 0, pending |-> {}]

MarkProcessingForgotten(W) == W

\* this.isProcessingBatch = true
MarkProcessing(W) == [W EXCEPT !.flag = TRUE]

\* if (this.isProcessingBatch) return; this.isProcessingBatch = true; try { ...
ProcessBatchQueue(W, svc) ==
    Value({IF w.flag THEN w
           ELSE ProcessEntries(
                    [MarkProcessing(w) EXCEPT !.loops = Append(@, NewLoop)],
                    svc, Len(w.loops) + 1) : w \in {W}})

\* The inner for loop after a chunk: i += maxConcurrent, then the next chunk
\* or, past the last target, the removal of the batch and the next entry.
AfterChunk(W, svc, n) ==
    LET Continued(w, loop) ==
          IF loop.i + loop.maxConcurrent < Len(loop.targets)
          THEN StartChunk([w EXCEPT !.loops[n].i = @ + loop.maxConcurrent],
                          svc, n)
          ELSE ProcessEntries(DeleteEntry(w, loop.batchId), svc, n)
    IN  Value({Continued(w, w.loops[n]) : w \in {W}})

TypeOf(svc) == svc

\* The requests submitted: a non-empty list of targets whose phone numbers
\* cycle through Phones (so that a list longer than MaxPhone names a number
\* twice), with maxConcurrent absent or MaxConc.
TargetLists ==
    {[k \in 1..len |-> ((k - 1) % MaxPhone) + 1] : len \in 1..MaxTargets}

\* The number of targets submitted so far, all batches together.
TargetsSubmitted ==
    Cardinality(UNION {{batchId} \X DOMAIN submissions[batchId].attempts :
                          batchId \in DOMAIN submissions})
MaxConcurrentInputs == {Absent, Some(MaxConc)}

\* makeBatchCalls(twilioCallbackUrl, request) / sendBatchSMS(request)
Submitted(svc, targets, maxConcurrent) ==
    LET batchId == FreshBatchId
        Enqueued(w) ==
          [w EXCEPT
             !.S = QueueTargets(
                      CreateOperation(@, batchId, TypeOf(svc), Len(targets),
                                      DefaultOne(maxConcurrent)),
                      batchId, targets, 1),
             !.queue = Append(@, [batchId |-> batchId, targets |-> targets,
                                  maxConcurrent |-> maxConcurrent]),
             !.submissions = @ @@ (batchId :>
                 [service |-> svc, joined |-> w.flag,
                  attempts |-> [k \in 1..Len(targets) |-> 0]])]
    IN  /\ batchId <= MaxBatches
        /\ TargetsSubmitted + Len(targets) <= MaxTargets
        /\ \E w \in {Enqueued(World(svc))} :
              CommitWorld(svc, IF ~w.flag THEN ProcessBatchQueue(w, svc) ELSE w)

SubmitBatch(svc, targets, maxConcurrent) ==
    /\ Submitted(svc, targets, maxConcurrent)
    /\ UNCHANGED <<lastOp, session, nav, registry, calls>>

MakeBatchCalls ==
    \E targets \in TargetLists, maxConcurrent \in MaxConcurrentInputs :
        SubmitBatch("call", targets, maxConcurrent)

SendBatchSMS ==
    \E targets \in TargetLists, maxConcurrent \in MaxConcurrentInputs :
        SubmitBatch("sms", targets, maxConcurrent)

\* The rest of one callback of chunk.map, after its await:
\*   call  placement succeeded -> startBatchTarget, failed -> failBatchTarget
\*   sms   send succeeded -> completeBatchTarget, failed -> failBatchTarget
TargetOutcome(S, svc, batchId, phoneNumber, ok) ==
    IF ~ok THEN FailBatchTarget(S, batchId, phoneNumber)
    ELSE IF svc = "call" THEN StartBatchTarget(S, batchId, phoneNumber)
    ELSE CompleteBatchTarget(S, batchId, phoneNumber)

CallbackSettledRethrown(W, svc, n, k, ok) ==
    LET loop == W.loops[n]
        S1 == TargetOutcome(W.S, svc, loop.batchId, loop.targets[k + 1], ok)
    IN  IF ok
        THEN [W EXCEPT !.S = S1, !.loops[n].pending = @ \ {k}]
        ELSE [W EXCEPT !.S = S1, !.flag = FALSE, !.loops = RemoveAt(@, n)]

\* try { await this.makeCall(...) } catch (error) { console.error(...) }: the
\* callback of target k settles, fulfilled whether the target succeeded or
\* failed, and the loop goes on waiting for the rest of the chunk.
CallbackSettled(W, svc, n, k, ok) ==
    LET loop == W.loops[n]
    IN  [W EXCEPT
           !.S = TargetOutcome(@, svc, loop.batchId, loop.targets[k + 1], ok),
           !.loops[n].pending = @ \ {k}]

TargetFinished(svc, n, ok) ==
    /\ n \in DOMAIN loops[svc]
    /\ \E k \in loops[svc][n].pending :
          CommitWorld(svc, CallbackSettled(World(svc), svc, n, k, ok))
    /\ UNCHANGED <<lastOp, session, nav, registry, calls>>

TargetSucceeded(svc) == \E n \in 1..MaxBatches : TargetFinished(svc, n, TRUE)
TargetFailed(svc) == \E n \in 1..MaxBatches : TargetFinished(svc, n, FALSE)

\* await Promise.all(promises): every callback of the chunk has finished
AllSettled(loop) == loop.pending = {}

\* Past the await: the inter-chunk delay if targets remain, else on.
ChunkAwaited(svc) ==
    \E n \in DOMAIN loops[svc] :
        LET loop == loops[svc][n]
        IN  /\ loop.pc = "await"
            /\ AllSettled(loop)
            /\ IF loop.i + loop.maxConcurrent < Len(loop.targets)
               THEN CommitWorld(svc, [World(svc) EXCEPT !.loops[n].pc = "delay"])
               ELSE CommitWorld(svc, AfterChunk(World(svc), svc, n))
            /\ UNCHANGED <<lastOp, session, nav, registry, calls>>

\* await new Promise(resolve => setTimeout(resolve, 1000)) has elapsed
DelayElapsed(svc) ==
    \E n \in DOMAIN loops[svc] :
        /\ loops[svc][n].pc = "delay"
        /\ CommitWorld(svc, AfterChunk(World(svc), svc, n))
        /\ UNCHANGED <<lastOp, session, nav, registry, calls>>

DrainStep(svc) ==
    \/ TargetSucceeded(svc)
    \/ TargetFailed(svc)
    \/ ChunkAwaited(svc)
    \/ DelayElapsed(svc)

NextDrain ==
    \/ MakeBatchCalls
    \/ SendBatchSMS
    \/ \E svc \in Services : TargetSucceeded(svc)
    \/ \E svc \in Services : TargetFailed(svc)
    \/ \E svc \in Services : ChunkAwaited(svc)
    \/ \E svc \in Services : DelayElapsed(svc)

SpecDrain == Init /\ [][NextDrain]_vars

\* The call service alone.
NextCallDrain ==
    \/ MakeBatchCalls
    \/ TargetSucceeded("call")
    \/ TargetFailed("call")
    \/ ChunkAwaited("call")
    \/ DelayElapsed("call")

\* Every placement eventually resolves or rejects, and the event loop
\* eventually runs every continuation and timer that is ready.
FairSpecCallDrain ==
    Init /\ [][NextCallDrain]_vars /\ WF_vars(DrainStep("call"))

\* maxConcurrent: z.number().optional() -- the tool schemas accept any number.
AnyMaxConcurrent == {Absent, Some(0), Some(0 - 1), Some(MaxConc)}

SubmitAnyConcurrency(svc) ==
    \E targets \in TargetLists, maxConcurrent \in AnyMaxConcurrent :
        /\ TargetsSubmitted + Len(targets) <= MaxAnyTargets
        /\ SubmitBatch(svc, targets, maxConcurrent)

\* The index i of every loop of the service is one that is followed.
IndexFollowed(svc) ==
    \A n \in DOMAIN loops[svc] : loops[svc][n].i > 0 - MaxBack

DrainStepFollowed(svc) == IndexFollowed(svc) /\ DrainStep(svc)

\* Both services, with every maxConcurrent the schemas let through.
NextAnyConcurrency ==
    \/ \E svc \in Services : SubmitAnyConcurrency(svc)
    \/ \E svc \in Services : TargetSucceeded(svc)
    \/ \E svc \in Services : TargetFailed(svc)
    \/ \E svc \in Services : IndexFollowed(svc) /\ ChunkAwaited(svc)
    \/ \E svc \in Services : IndexFollowed(svc) /\ DelayElapsed(svc)

SpecAnyConcurrency == Init /\ [][NextAnyConcurrency]_vars

\* Every placement and every send eventually resolves or rejects, and the
\* event loop eventually runs every continuation and timer that is ready.
FairSpecAnyConcurrency ==
    /\ SpecAnyConcurrency
    /\ \A svc \in Services : WF_vars(DrainStepFollowed(svc))

----------------------------------------------------------------------------
(* One call session: OpenAICallHandler / SimpleElevenLabsHandler *)

\* The handler of an event starts: nothing sent yet.
Handling(cs, event) ==
    [cs EXCEPT !.last = event, !.sent = {}, !.truncate = <<>>,
               !.ping = "", !.pongs = <<>>]

\* TwilioWsService.sendAudio / twilioWs.send of a media frame: nothing is
\* sent without a streamSid, and nothing reaches a closed socket.
SendAudio(cs) ==
    IF cs.streamSid /\ cs.twilioWs = "open"
    THEN [cs EXCEPT !.sent = @ \cup {"audio"}, !.relaying = TRUE]
    ELSE cs

\* TwilioWsService.clearStream / twilioWs.send of a clear frame
ClearStream(cs) ==
    IF cs.streamSid /\ cs.twilioWs = "open"
    THEN [cs EXCEPT !.sent = @ \cup {"clear"}, !.relaying = FALSE]
    ELSE cs

\* OpenAIWsService.truncateAssistantResponse(itemId, elapsedTime)
TruncateAssistantResponse(cs, itemId, elapsedTime) ==
    IF cs.providerWs = "open"
    THEN [cs EXCEPT !.sent = @ \cup {"truncate"},
                    !.truncate = <<itemId, elapsedTime>>]
    ELSE cs

\* OpenAIWsService.sendAudio / elevenLabsWs.send of caller audio: forwarded
\* when the provider socket is open, dropped otherwise.
ForwardCallerAudio(cs) ==
    IF cs.providerWs = "open"
    THEN [cs EXCEPT !.sent = @ \cup {"callerAudio"}]
    ELSE cs

\* The session configuration sent to the provider: this call's parameters
\* when the start frame has been handled, the defaults otherwise.
SendSessionConfig(cs) ==
    IF cs.providerWs = "open"
    THEN [cs EXCEPT !.sent = @ \cup {"config"},
                    !.providerSetup = IF cs.streamSid THEN "call" ELSE "default"]
    ELSE cs

ResetResponseState(cs) ==
    [cs EXCEPT !.markQueue = <<>>,
               !.lastAssistantItemId = 0,
               !.responseStartTimestampTwilio = Null]

HandleSpeechStartedEvent(cs) ==
    IF \/ Len(cs.markQueue) = 0
       \/ cs.responseStartTimestampTwilio = Null
       \/ cs.lastAssistantItemId = 0
    THEN cs
    ELSE LET elapsedTime == cs.latestMediaTimestamp
                               - cs.responseStartTimestampTwilio
         IN  ResetResponseState(ClearStream(
                 TruncateAssistantResponse(cs, cs.lastAssistantItemId,
                                           elapsedTime)))

\* webSocket.send on a socket that is no longer open either throws or drops
\* the frame, depending on the version of the ws library the build resolves.
SendCanThrow(cs) == cs.streamSid /\ cs.twilioWs # "open"

\* OpenAIEventService.handleAudioDelta: !responseStartTimestampTwilio is true
\* of null and of 0. A send that throws leaves the handler at once;
\* processMessage catches it.
HandleAudioDelta(cs, itemId, throws) ==
    LET relayed == SendAudio(cs)
        stamped == IF relayed.responseStartTimestampTwilio \in {Null, 0}
                   THEN [relayed EXCEPT !.responseStartTimestampTwilio =
                                            relayed.latestMediaTimestamp]
                   ELSE relayed
    IN  IF throws
        THEN cs
        ELSE [stamped EXCEPT !.lastAssistantItemId = itemId]

\* The 'audio' case of SimpleElevenLabsHandler
HandleElevenLabsAudio(cs) == SendAudio(cs)

\* The 'interruption' case of SimpleElevenLabsHandler
HandleElevenLabsInterruption(cs) == ClearStream(cs)

\* message.ping_event?.event_id of a ping frame: a string, "" when the frame
\* has no ping_event or no event id in it.
PingEventIds == {"", "abc", "def"}

\* The pong without the event id of the ping.
HandlePingNoEcho(cs, eventId) ==
    IF eventId # "" /\ cs.providerWs = "open"
    THEN [cs EXCEPT !.ping = eventId, !.pongs = Append(@, "")]
    ELSE [cs EXCEPT !.ping = eventId]

\* The 'ping' case of SimpleElevenLabsHandler and of ElevenLabsWsService:
\* if (message.ping_event?.event_id) send { type: "pong", event_id }
HandlePing(cs, eventId) ==
    IF eventId # "" /\ cs.providerWs = "open"
    THEN [cs EXCEPT !.ping = eventId, !.pongs = Append(@, eventId)]
    ELSE [cs EXCEPT !.ping = eventId]

\* customParameters.batchId of a start frame: 0 when the call was not placed
\* for a batch, else the batch id of the placement.
StreamBatchIds == {0, 1}

\* customParameters.toNumber of the start frame
ToNumber == 1

\* TwilioEventService.handleStartEvent / the 'start' case of
\* SimpleElevenLabsHandler. Only the latter reads customParameters.batchId;
\* nothing assigns callState.batchId in an OpenAICallHandler.
HandleStartEvent(cs, batchId) ==
    IF cs.handler = "openai"
    THEN [cs EXCEPT !.streamSid = TRUE, !.callSid = TRUE,
                    !.responseStartTimestampTwilio = Null,
                    !.latestMediaTimestamp = 0]
    ELSE [cs EXCEPT !.streamSid = TRUE, !.callSid = TRUE,
                    !.batchId = IF batchId # 0 THEN batchId ELSE @]

\* TwilioEventService.handleMediaEvent / the 'media' case
HandleMediaEvent(cs, timestamp) ==
    IF cs.handler = "openai"
    THEN ForwardCallerAudio([cs EXCEPT !.latestMediaTimestamp = timestamp])
    ELSE ForwardCallerAudio(cs)

\* TwilioEventService.handleMarkEvent; SimpleElevenLabsHandler has no case
\* for a mark frame.
HandleMarkEvent(cs) ==
    IF cs.handler = "openai" /\ Len(cs.markQueue) > 0
    THEN [cs EXCEPT !.markQueue = Tail(@)]
    ELSE cs

\* OpenAIWsService.close / elevenLabsWs.close()
CloseProvider(cs) ==
    IF cs.providerWs \in {"connecting", "open"}
    THEN [cs EXCEPT !.providerWs = "closed"]
    ELSE cs

\* if (this.elevenLabsWs?.readyState === WebSocket.OPEN) this.elevenLabsWs.close()
CloseProviderIfOpen(cs) ==
    IF cs.providerWs = "open"
    THEN [cs EXCEPT !.providerWs = "closed"]
    ELSE cs

\* TwilioWsService.close
CloseTwilio(cs) ==
    IF cs.twilioWs = "open"
    THEN [cs EXCEPT !.twilioWs = "closed", !.relaying = FALSE]
    ELSE cs

\* OpenAICallHandler.endCall, up to the pending update of the call and the
\* pending timer. callState.batchId is not set in this handler, so the
\* completeBatchTarget of endCall is not reached.
EndCall(cs) ==
    LET ended == IF cs.callSid
                 THEN [cs EXCEPT !.endedEvents = @ + 1, !.endCalls = @ + 1]
                 ELSE cs
    IN  [ended EXCEPT !.closeTimers = @ + 1,
                      !.goodbyes = @ + 1,
                      !.triggers = @ \cup {"endCall"}]

\* TwilioCallService.endCall after the update of the call has settled
EndCallSettled(cs, ok) ==
    IF ok
    THEN [cs EXCEPT !.endCalls = @ - 1, !.endedEvents = @ + 1]
    ELSE [cs EXCEPT !.endCalls = @ - 1, !.errorEvents = @ + 1]

\* OpenAICallHandler.closeWebSockets
CloseWebSockets(cs) == CloseProvider(CloseTwilio(cs))

\* updateBatchResult throws when the batch is not in the operations map or
\* has no result for the phone number.
UpdateBatchResultThrows(S, batchId, phoneNumber) ==
    \/ batchId \notin DOMAIN S.operations
    \/ FindIndex(S.operations[batchId].results, phoneNumber) = 0

\* if (this.callState.batchId && this.callState.toNumber)
\*     this.batchService.completeBatchTarget(batchId, toNumber, transcriptId)
CompletesBatchTarget(cs) ==
    cs.handler = "elevenlabs" /\ cs.callSid /\ cs.batchId # 0

\* The 'stop' frame: the default branch of TwilioEventService.processEvent,
\* the 'stop' case of SimpleElevenLabsHandler. An exception of
\* completeBatchTarget leaves the case at once; the handler's catch logs it.
HandleStopEvent(cs, S) ==
    IF cs.handler = "openai"
    THEN cs
    ELSE LET released == CloseProviderIfOpen(cs)
         IN  IF cs.callSid
             THEN IF /\ CompletesBatchTarget(cs)
                     /\ UpdateBatchResultThrows(S, cs.batchId, ToNumber)
                  THEN released
                  ELSE [released EXCEPT !.endedEvents = @ + 1]
             ELSE released

\* The batch service after the 'stop' frame of the session
StopBookkeeping(cs, S) ==
    IF CompletesBatchTarget(cs)
    THEN CompleteBatchTarget(S, cs.batchId, ToNumber)
    ELSE S

\* The 'close' handler of the Twilio socket
HandleTwilioClose(cs) ==
    IF cs.handler = "openai"
    THEN CloseProvider(cs)
    ELSE CloseProviderIfOpen(cs)

\* The 'open' handler of the provider socket: OpenAICallHandler sets a timer
\* of 100 ms, SimpleElevenLabsHandler sends the initial configuration.
HandleProviderOpen(cs) ==
    IF cs.handler = "openai"
    THEN [cs EXCEPT !.initTimer = TRUE]
    ELSE SendSessionConfig(cs)

----------------------------------------------------------------------------
(* The events of one call session. The call is not a target of a batch. *)

SessionExists == session.handler # "none"

Handled(cs) ==
    /\ session' = cs
    /\ UNCHANGED <<operations, completeEvents, lastOp, drainVars, nav, registry,
                   calls>>

\* A Twilio stream connects: CallSessionManager.createSession
CreateSession(handler) ==
    /\ session = NoSession
    /\ Handled(CallState(handler))

\* SimpleElevenLabsHandler.setupElevenLabs after getSignedUrl has settled
SignedUrlSettled(ok) ==
    /\ session.handler = "elevenlabs"
    /\ session.providerWs = "none"
    /\ ~session.connectFailed
    /\ Handled(IF ok
               THEN [Handling(session, "signedUrl") EXCEPT
                         !.providerWs = "connecting"]
               ELSE [Handling(session, "signedUrlFailed") EXCEPT
                         !.connectFailed = TRUE])

ProviderOpen ==
    /\ SessionExists
    /\ session.providerWs = "connecting"
    /\ Handled(HandleProviderOpen(
                   [Handling(session, "providerOpen") EXCEPT
                        !.providerWs = "open"]))

\* The provider socket fails to connect: 'error', then 'close'. Both
\* handlers only log.
ProviderConnectError ==
    /\ SessionExists
    /\ session.providerWs = "connecting"
    /\ Handled([Handling(session, "providerError") EXCEPT
                    !.providerWs = "closed", !.connectFailed = TRUE])

\* The provider closes an open connection. Both handlers only log.
ProviderClose ==
    /\ SessionExists
    /\ session.providerWs = "open"
    /\ Handled([Handling(session, "providerClose") EXCEPT
                    !.providerWs = "closed",
                    !.triggers = @ \cup {"providerClosed"}])

\* The timer of initializeOpenAI fires.
SessionInitTimer ==
    /\ SessionExists
    /\ session.initTimer
    /\ Handled(SendSessionConfig(
                   [Handling(session, "initTimer") EXCEPT !.initTimer = FALSE]))

\* Twilio sends its frames in the order start, media and mark, stop.
TwilioSends ==
    /\ SessionExists
    /\ session.twilioWs = "open"
    /\ "hangup" \notin session.triggers

TwilioStart(batchId) ==
    /\ TwilioSends
    /\ ~session.streamSid
    /\ Handled(HandleStartEvent(Handling(session, "start"), batchId))

TwilioMedia(timestamp) ==
    /\ TwilioSends
    /\ session.streamSid
    /\ timestamp >= session.latestMediaTimestamp
    /\ Handled(HandleMediaEvent(Handling(session, "media"), timestamp))

TwilioMark ==
    /\ TwilioSends
    /\ session.streamSid
    /\ Handled(HandleMarkEvent(Handling(session, "mark")))

TwilioStop ==
    /\ TwilioSends
    /\ session.streamSid
    /\ session' = HandleStopEvent(
                       [Handling(session, "stop") EXCEPT
                            !.triggers = @ \cup {"hangup"},
                            !.relaying = FALSE],
                       Current)
    /\ Commit(StopBookkeeping(session, Current))
    /\ UNCHANGED <<lastOp, drainVars, nav, registry, calls>>

\* The Twilio socket is closed by the other side.
TwilioClose ==
    /\ SessionExists
    /\ session.twilioWs = "open"
    /\ Handled(HandleTwilioClose(
                   [Handling(session, "twilioClose") EXCEPT
                        !.twilioWs = "closed",
                        !.relaying = FALSE,
                        !.triggers = @ \cup {"hangup"}]))

ProviderSends ==
    /\ SessionExists
    /\ session.providerWs = "open"

\* response.audio.delta / audio
ProviderAudio(itemId, throws) ==
    /\ ProviderSends
    /\ throws => SendCanThrow(session)
    /\ Handled(IF session.handler = "openai"
               THEN HandleAudioDelta(Handling(session, "audio"), itemId, throws)
               ELSE HandleElevenLabsAudio(Handling(session, "audio")))

\* A ping frame of the ElevenLabs connection
ProviderPing(eventId) ==
    /\ ProviderSends
    /\ session.handler = "elevenlabs"
    /\ Handled(HandlePing(Handling(session, "ping"), eventId))

\* The provider has sent the last audio of an utterance (response.done):
\* neither handler has a case for it.
ProviderResponseDone ==
    /\ ProviderSends
    /\ session.relaying
    /\ Handled([Handling(session, "responseDone") EXCEPT !.relaying = FALSE])

\* input_audio_buffer.speech_started / interruption
ProviderSpeechStarted ==
    /\ ProviderSends
    /\ Handled(IF session.handler = "openai"
               THEN HandleSpeechStartedEvent(Handling(session, "speechStarted"))
               ELSE HandleElevenLabsInterruption(
                        Handling(session, "speechStarted")))

\* A transcription of the caller that checkForGoodbye accepts
ProviderGoodbye ==
    /\ ProviderSends
    /\ session.handler = "openai"
    /\ session.goodbyes < MaxEndCalls
    /\ Handled(EndCall(Handling(session, "goodbye")))

\* The update of the call by TwilioCallService.endCall settles.
EndCallUpdate(ok) ==
    /\ SessionExists
    /\ session.endCalls > 0
    /\ Handled(EndCallSettled(Handling(session, "endCallSettled"), ok))

\* A timer of endCall fires.
CloseTimer ==
    /\ SessionExists
    /\ session.closeTimers > 0
    /\ Handled(CloseWebSockets(
                   [Handling(session, "closeTimer") EXCEPT
                        !.closeTimers = @ - 1]))

NextSession ==
    \/ \E handler \in Handlers : CreateSession(handler)
    \/ \E ok \in BOOLEAN : SignedUrlSettled(ok)
    \/ ProviderOpen
    \/ ProviderConnectError
    \/ ProviderClose
    \/ SessionInitTimer
    \/ \E batchId \in StreamBatchIds : TwilioStart(batchId)
    \/ \E timestamp \in 0..MaxTime : TwilioMedia(timestamp)
    \/ TwilioMark
    \/ TwilioStop
    \/ TwilioClose
    \/ \E itemId \in 1..MaxItem, throws \in BOOLEAN :
          ProviderAudio(itemId, throws)
    \/ \E eventId \in PingEventIds : ProviderPing(eventId)
    \/ ProviderResponseDone
    \/ ProviderSpeechStarted
    \/ ProviderGoodbye
    \/ \E ok \in BOOLEAN : EndCallUpdate(ok)
    \/ CloseTimer

SpecSession == Init /\ [][NextSession]_vars

\* TwilioWsService.sendDTMF: nothing is sent without a streamSid; the frame
\* goes to webSocket.send, and nothing reaches a closed socket.
SendDTMF(cs) ==
    IF cs.streamSid /\ cs.twilioWs = "open"
    THEN [cs EXCEPT !.sent = @ \cup {"dtmf"}]
    ELSE cs

\* The assistant transcripts of response.audio_transcript.done: whether the
\* text is empty, whether processTranscript returns a rule for it, and
\* whether it includes 'connect', 'press' or 'transfer'.
AssistantTranscripts ==
    [empty : BOOLEAN, rule : BOOLEAN, acknowledges : BOOLEAN]

\* OpenAIEventService.handleAudioTranscriptDone: the timer of the DTMF send.
\* Its handle is not kept.
HandleAudioTranscriptDone(cs, transcript) ==
    IF /\ ~transcript.empty
       /\ cs.ivrNavigationService /\ cs.twilioWsService
       /\ transcript.rule
       /\ transcript.acknowledges
    THEN [cs EXCEPT !.dtmfTimers = @ + 1]
    ELSE cs

\* OpenAIEventService.setIVRNavigationService
SetIVRNavigationService ==
    /\ session.handler = "openai"
    /\ ~session.ivrNavigationService
    /\ Handled([Handling(session, "setIVRNavigationService") EXCEPT
                    !.ivrNavigationService = TRUE])

\* OpenAIEventService.setTwilioWsService
SetTwilioWsService ==
    /\ session.handler = "openai"
    /\ ~session.twilioWsService
    /\ Handled([Handling(session, "setTwilioWsService") EXCEPT
                    !.twilioWsService = TRUE])

\* response.audio_transcript.done
ProviderTranscriptDone(transcript) ==
    /\ ProviderSends
    /\ session.handler = "openai"
    /\ session.dtmfTimers < MaxDtmf
    /\ Handled(HandleAudioTranscriptDone(Handling(session, "transcriptDone"),
                                         transcript))

\* A timer of handleAudioTranscriptDone fires.
DtmfTimer ==
    /\ SessionExists
    /\ session.dtmfTimers > 0
    /\ Handled(SendDTMF([Handling(session, "dtmfTimer") EXCEPT
                             !.dtmfTimers = @ - 1]))

\* One session of OpenAICallHandler or SimpleElevenLabsHandler, the IVR
\* navigation of the OpenAI event service attachable through its setters.
NextSessionIVR ==
    \/ NextSession
    \/ SetIVRNavigationService
    \/ SetTwilioWsService
    \/ \E transcript \in AssistantTranscripts : ProviderTranscriptDone(transcript)
    \/ DtmfTimer

SpecSessionIVR == Init /\ [][NextSessionIVR]_vars

----------------------------------------------------------------------------
(* IVRNavigationService *)

\* The loop of findMatchingRule from rule k on: bestMatch (0: null) and
\* highestConfidence so far.
RECURSIVE FindFrom(_, _, _, _)
FindFrom(transcript, k, bestMatch, highestConfidence) ==
    IF k > Len(COMMON_IVR_RULES)
    THEN bestMatch
    ELSE IF /\ k \in TranscriptTable[transcript].rules
            /\ COMMON_IVR_RULES[k].confidence > highestConfidence
         THEN FindFrom(transcript, k + 1, k, COMMON_IVR_RULES[k].confidence)
         ELSE FindFrom(transcript, k + 1, bestMatch, highestConfidence)

FindMatchingRuleFirstMatch(transcript) ==
    IF TranscriptTable[transcript].rules = {}
    THEN 0
    ELSE CHOOSE k \in TranscriptTable[transcript].rules :
             \A j \in TranscriptTable[transcript].rules : k <= j

FindMatchingRule(transcript) == FindFrom(transcript, 1, 0, 0)

ClearIVRTimeout(n) == [n EXCEPT !.ivrTimeout = FALSE]

SetIVRTimeout(n) ==
    [ClearIVRTimeout(n) EXCEPT !.ivrTimeout = TRUE, !.quiet = TRUE]

\* menuLevel-- in place of menuLevel++
EnterIVRModeDecrements(n) ==
    [SetIVRTimeout([n EXCEPT !.ivrState.isNavigating = TRUE,
                             !.ivrState.menuLevel = @ - 1])
        EXCEPT !.emitted = @ \cup {"ivrModeEntered"}]

EnterIVRMode(n) ==
    [SetIVRTimeout([n EXCEPT !.ivrState.isNavigating = TRUE,
                             !.ivrState.menuLevel = @ + 1])
        EXCEPT !.emitted = @ \cup {"ivrModeEntered"}]

DetectHumanAgentKeepsTimer(n) ==
    [n EXCEPT !.ivrState.humanDetected = TRUE,
              !.ivrState.isNavigating = FALSE,
              !.emitted = @ \cup {"humanDetected"},
              !.quiet = FALSE]

DetectHumanAgent(n) ==
    [ClearIVRTimeout([n EXCEPT !.ivrState.humanDetected = TRUE,
                               !.ivrState.isNavigating = FALSE])
        EXCEPT !.emitted = @ \cup {"humanDetected"}, !.quiet = FALSE]

\* The first block of processTranscript: not navigating yet.
Detect(n, transcript) ==
    IF n.ivrState.isNavigating
    THEN n
    ELSE IF TranscriptTable[transcript].ivr
         THEN EnterIVRMode(n)
         ELSE IF TranscriptTable[transcript].human
              THEN DetectHumanAgent(n)
              ELSE n

\* The second block of processTranscript: navigating.
Navigate(n, transcript) ==
    LET rule == FindMatchingRule(transcript)
    IN  IF ~n.ivrState.isNavigating
        THEN n
        ELSE IF rule # 0
             THEN [n EXCEPT
                     !.ivrState.optionsHeard = Append(@, Snippet(transcript)),
                     !.ivrState.actionsToken =
                         Append(@, COMMON_IVR_RULES[rule].action),
                     !.emitted = @ \cup {"ivrOptionDetected"},
                     !.quiet = FALSE,
                     !.last.returned = rule,
                     !.last.action = COMMON_IVR_RULES[rule].action]
             ELSE IF TranscriptTable[transcript].human
                  THEN DetectHumanAgent(n)
                  ELSE n

ProcessTranscript(n, transcript) == Navigate(Detect(n, transcript), transcript)

\* The callback of the timer of setIVRTimeout
IvrTimeoutCallback(n) ==
    IF n.ivrState.isNavigating /\ ~n.ivrState.humanDetected
    THEN [n EXCEPT !.emitted = @ \cup {"ivrTimeout"},
                   !.last.action = DefaultAction]
    ELSE n

\* IVRNavigationService.cleanup
IvrCleanup(n) == ClearIVRTimeout(n)

\* A method is called or a callback runs: nothing emitted or returned yet.
Running(n, op, transcript) ==
    [n EXCEPT !.last = [op |-> op, transcript |-> transcript,
                        returned |-> 0, action |-> ""],
              !.emitted = {},
              !.switched = <<>>]

\* A method of one of the two services is called for the call.
Method(n, op, transcript) ==
    [Running(n, op, transcript) EXCEPT !.ops = @ + 1]

NavStep(n) ==
    /\ nav' = n
    /\ UNCHANGED <<operations, completeEvents, lastOp, drainVars, session,
                   registry, calls>>

NavCall == nav.ops < MaxNavOps

DoProcessTranscript(transcript) ==
    /\ NavCall
    /\ ~nav.ended
    /\ NavStep(ProcessTranscript(Method(nav, "processTranscript", transcript),
                                 transcript))

IvrTimeoutFires ==
    /\ nav.ivrTimeout
    /\ NavStep(IvrTimeoutCallback(
                   [Running(nav, "ivrTimeout", 0) EXCEPT !.ivrTimeout = FALSE]))

DoIvrCleanup ==
    /\ NavCall
    /\ NavStep(IvrCleanup(Method(nav, "ivrCleanup", 0)))

----------------------------------------------------------------------------
(* ProviderSwitchService *)

Providers == {"openai", "elevenlabs"}

SocketField(provider) ==
    IF provider = "openai" THEN "openaiWs" ELSE "elevenLabsWs"

\* const existing = this.activeConnections.get(callSid) || {}
NoConnections == [openaiWs |-> "undefined", elevenLabsWs |-> "undefined"]

RegisterConnection(n, provider, ws) ==
    LET objects == IF n.activeConnections = 0
                   THEN Append(n.objects, NoConnections)
                   ELSE n.objects
        existing == IF n.activeConnections = 0
                    THEN Len(objects)
                    ELSE n.activeConnections
    IN  [n EXCEPT
           !.objects = [objects EXCEPT ![existing][SocketField(provider)] = ws],
           !.activeConnections = existing]

\* if (ws && ws.readyState === WebSocket.OPEN) ws.close()
CloseIfOpen(ws) == IF ws = "open" THEN "closed" ELSE ws

\* ProviderSwitchService.cleanup
SwitchCleanup(n) ==
    IF n.activeConnections = 0
    THEN n
    ELSE [n EXCEPT
            !.objects[n.activeConnections] =
                [openaiWs |-> CloseIfOpen(@.openaiWs),
                 elevenLabsWs |-> CloseIfOpen(@.elevenLabsWs)],
            !.activeConnections = 0]

\* ProviderSwitchService.getActiveWebSocket
GetActiveWebSocket(n, provider) ==
    IF n.activeConnections = 0
    THEN "undefined"
    ELSE n.objects[n.activeConnections][SocketField(provider)]

\* summarizeIVRNavigation: the options heard and the digits pressed
SummarizeIVRNavigation(n) ==
    [optionsHeard |-> n.ivrState.optionsHeard,
     actionsToken |-> n.ivrState.actionsToken]

\* ElevenLabsService.start opens nothing and getWebSocket returns the
\* webSocket field, which nothing assigns.
StartedWebSocket == "undefined"

\* switchToElevenLabs from "Initialize ElevenLabs connection" to its return,
\* for the activation act that holds the connections object act.connections.
SwitchTarget(n, act) ==
    LET held == act.connections
        starts == n.objects[held].elevenLabsWs # "open"
        registered == IF starts
                      THEN RegisterConnection(n, "elevenlabs", StartedWebSocket)
                      ELSE n
        sends == registered.objects[held].elevenLabsWs = "open"
    IN  [registered EXCEPT
           !.switched =
               [result |-> TRUE,
                started |-> IF starts THEN 1 ELSE 0,
                contextSent |-> IF sends THEN 1 ELSE 0,
                summary |-> act.summary,
                oldBefore |-> act.oldBefore,
                oldAfter |-> registered.objects[held].openaiWs,
                targetBefore |-> n.objects[held].elevenLabsWs,
                target |-> GetActiveWebSocket(registered, "elevenlabs")]]

\* switchToElevenLabs up to its first await or, when the outgoing socket is
\* not open, to its return.
SwitchToElevenLabs(n) ==
    IF n.activeConnections = 0
    THEN [n EXCEPT
            !.switched = [result |-> FALSE, started |-> 0, contextSent |-> 0,
                          summary |-> SummarizeIVRNavigation(n),
                          oldBefore |-> "undefined", oldAfter |-> "undefined",
                          targetBefore |-> "undefined",
                          target |-> "undefined"]]
    ELSE LET updated == [n EXCEPT
                           !.ivrState.currentProvider = "elevenlabs",
                           !.ivrState.humanDetected = TRUE,
                           !.ivrState.isNavigating = FALSE,
                           !.emitted = @ \cup {"providerSwitch"}]
             act == [connections |-> n.activeConnections,
                     summary |-> SummarizeIVRNavigation(updated),
                     oldBefore |-> n.objects[n.activeConnections].openaiWs]
         IN  IF act.oldBefore = "open"
             THEN [updated EXCEPT !.switches = Append(@, act)]
             ELSE SwitchTarget(updated, act)

\* switchToElevenLabs after the 500 ms have elapsed: openaiWs.close(), then
\* the rest.
SwitchResumed(n, i) ==
    LET act == n.switches[i]
        closed == [n EXCEPT
                     !.switches = RemoveAt(@, i),
                     !.objects[act.connections].openaiWs =
                         IF @ \in {"connecting", "open"} THEN "closed" ELSE @]
    IN  SwitchTarget(closed, act)

DoRegisterConnection(provider, ws) ==
    /\ NavCall
    /\ ~nav.ended
    /\ NavStep(RegisterConnection(Method(nav, "registerConnection", 0),
                                  provider, ws))

DoSwitchToElevenLabs ==
    /\ NavCall
    /\ ~nav.ended
    /\ NavStep(SwitchToElevenLabs(Method(nav, "switchToElevenLabs", 0)))

SwitchGraceElapsed ==
    \E i \in DOMAIN nav.switches :
        NavStep(SwitchResumed(Running(nav, "switchResumed", 0), i))

DoSwitchCleanup ==
    /\ NavCall
    /\ NavStep(SwitchCleanup(Method(nav, "switchCleanup", 0)))

\* A provider socket that is connecting opens, an open one is closed by the
\* other side.
ProviderSocketEvent ==
    \E o \in DOMAIN nav.objects : \E provider \in Providers :
        LET ws == nav.objects[o][SocketField(provider)]
        IN  /\ ws \in {"connecting", "open"}
            /\ NavStep([Running(nav, "socketEvent", 0) EXCEPT
                            !.objects[o][SocketField(provider)] =
                                IF ws = "connecting" THEN "open" ELSE "closed"])

\* The call is ended: OpenAICallHandler.endCall, which calls neither
\* service.
NavEndCall ==
    /\ ~nav.ended
    /\ NavStep([Running(nav, "endCall", 0) EXCEPT !.ended = TRUE])

NextNav ==
    \/ \E transcript \in Transcripts : DoProcessTranscript(transcript)
    \/ IvrTimeoutFires
    \/ DoIvrCleanup
    \/ \E provider \in Providers, ws \in {"connecting", "open"} :
          DoRegisterConnection(provider, ws)
    \/ DoSwitchToElevenLabs
    \/ SwitchGraceElapsed
    \/ DoSwitchCleanup
    \/ ProviderSocketEvent
    \/ NavEndCall

SpecNav == Init /\ [][NextNav]_vars

----------------------------------------------------------------------------
(* SessionManagerService and the registry of ProviderSwitchService *)

\* ws.url of a socket accepted by the server (app.ws): only a client socket
\* has a url.
SocketUrl(ws) == ""

\* ws.url || ws.toString()
GetSessionKey(ws) ==
    IF SocketUrl(ws) # "" THEN SocketUrl(ws) ELSE "[object Object]"

\* this.activeSessions.set(this.getSessionKey(ws), handler)
AddSession(activeSessions, ws) ==
    [key \in DOMAIN activeSessions \cup {GetSessionKey(ws)} |->
        IF key = GetSessionKey(ws) THEN ws ELSE activeSessions[key]]

RemoveSession(activeSessions, ws) ==
    IF GetSessionKey(ws) \in DOMAIN activeSessions
    THEN [key \in DOMAIN activeSessions \ {GetSessionKey(ws)} |->
             activeSessions[key]]
    ELSE activeSessions

RegistryStep(r) ==
    /\ registry' = r
    /\ UNCHANGED <<operations, completeEvents, lastOp, drainVars, session, nav,
                   calls>>

\* A Twilio stream connects: SessionManagerService.createSession
StreamConnects(ws) ==
    /\ registry.sockets[ws] = "none"
    /\ RegistryStep([registry EXCEPT
                        !.sockets[ws] = "open",
                        !.activeSessions = AddSession(@, ws)])

\* The 'close' handler of registerSessionCleanup
StreamCloses(ws) ==
    /\ registry.sockets[ws] = "open"
    /\ RegistryStep([registry EXCEPT
                        !.sockets[ws] = "closed",
                        !.activeSessions = RemoveSession(@, ws)])

\* registerConnection(callSid, provider, ...) for the call of stream ws
RegisterCallConnection(ws, provider) ==
    /\ registry.sockets[ws] = "open"
    /\ provider \notin registry.activeConnections[ws]
    /\ RegistryStep([registry EXCEPT
                        !.activeConnections[ws] = @ \cup {provider}])

\* cleanup(callSid) for the call of stream ws
CleanupCallConnections(ws) ==
    /\ registry.activeConnections[ws] # {}
    /\ RegistryStep([registry EXCEPT !.activeConnections[ws] = {}])

NextRegistry ==
    \/ \E ws \in 1..MaxSockets : StreamConnects(ws)
    \/ \E ws \in 1..MaxSockets : StreamCloses(ws)
    \/ \E ws \in 1..MaxSockets, provider \in Providers :
          RegisterCallConnection(ws, provider)
    \/ \E ws \in 1..MaxSockets : CleanupCallConnections(ws)

SpecRegistry == Init /\ [][NextRegistry]_vars

----------------------------------------------------------------------------
(* The calls of call batches: TwilioCallService.makeCall, the TwiML routes  *)
(* and the handlers of the calls' streams                                   *)

\* A call Twilio has created for target k (0-based) of a batch.
\*   line         "ringing", "streaming" once the start frame of its stream
\*                has been handled, then "unanswered", "stopped" or "dropped"
\*   placed       the continuation of makeCall after calls.create has run
\*   transcripts  the transcripts created with the call's id
\*   batchId      callState.batchId of the call's handler: 0 while not set
NewCall(batchId, k, phoneNumber, handler) ==
    [batch |-> batchId, k |-> k, phoneNumber |-> phoneNumber,
     handler |-> handler, line |-> "ringing",
     placed |-> FALSE, transcripts |-> 0, batchId |-> 0]

CallOf(batchId, k) ==
    {c \in DOMAIN calls.live :
        calls.live[c].batch = batchId /\ calls.live[c].k = k}

\* transcriptStorage.createTranscript(callState, batchId): always a new
\* transcript, whatever callToTranscriptMap holds for the call.
CreateTranscript(call) == [call EXCEPT !.transcripts = @ + 1]

\* let transcriptId = transcriptStorage.getTranscriptIdByCallSid(callSid);
\* if (!transcriptId) transcriptId = transcriptStorage.createTranscript(...)
GetOrCreateTranscript(call) ==
    IF call.transcripts > 0 THEN call ELSE CreateTranscript(call)

\* makeBatchCalls with the provider of the request
MakeBatchCallsFor(provider) ==
    \E targets \in TargetLists, maxConcurrent \in MaxConcurrentInputs :
        /\ TargetsSubmitted + Len(targets) <= MaxLive
        /\ Submitted("call", targets, maxConcurrent)
        /\ calls' = [calls EXCEPT !.provider = @ @@ (FreshBatchId :> provider)]
        /\ UNCHANGED <<lastOp, session, nav, registry>>

\* await twilioClient.calls.create(...): Twilio has created the call; the
\* promise of makeCall has not been resumed yet.
TwilioCreatesCall ==
    \E n \in DOMAIN loops["call"] : \E k \in loops["call"][n].pending :
        LET batchId == loops["call"][n].batchId
        IN  /\ CallOf(batchId, k) = {}
            /\ calls' = [calls EXCEPT !.live =
                            Append(@, NewCall(batchId, k,
                                              loops["call"][n].targets[k + 1],
                                              calls.provider[batchId]))]
            /\ UNCHANGED <<operations, completeEvents, lastOp, drainVars,
                           session, nav, registry>>

\* makeCall after calls.create has resolved: createTranscript, then
\* startBatchTarget, then the callback of the chunk settles.
PlacementResolved ==
    \E n \in DOMAIN loops["call"] : \E k \in loops["call"][n].pending :
        \E c \in CallOf(loops["call"][n].batchId, k) :
            /\ ~calls.live[c].placed
            /\ CommitWorld("call",
                           CallbackSettled(World("call"), "call", n, k, TRUE))
            /\ calls' = [calls EXCEPT !.live[c] =
                            [CreateTranscript(@) EXCEPT !.placed = TRUE]]
            /\ UNCHANGED <<lastOp, session, nav, registry>>

\* makeCall after calls.create has rejected: failBatchTarget, rethrow
PlacementRejected ==
    \E n \in DOMAIN loops["call"] : \E k \in loops["call"][n].pending :
        /\ CallOf(loops["call"][n].batchId, k) = {}
        /\ CommitWorld("call",
                       CallbackSettled(World("call"), "call", n, k, FALSE))
        /\ UNCHANGED <<lastOp, session, nav, registry, calls>>

CallStep(c, call) ==
    /\ calls' = [calls EXCEPT !.live[c] = call]
    /\ UNCHANGED <<lastOp, drainVars, session, nav, registry>>

\* The callee answers and the start frame of the call's stream is handled.
\* The TwiML of a batch call carries batchId as a custom parameter.
CallStreamStarts ==
    \E c \in DOMAIN calls.live :
        LET call == calls.live[c]
        IN  /\ call.line = "ringing"
            /\ CallStep(c, [GetOrCreateTranscript(call) EXCEPT
                               !.line = "streaming",
                               !.batchId = IF call.handler = "elevenlabs"
                                           THEN call.batch ELSE @])
            /\ UNCHANGED <<operations, completeEvents>>

\* The call ends without having been answered: no stream, no handler.
CallNotAnswered ==
    \E c \in DOMAIN calls.live :
        /\ calls.live[c].line = "ringing"
        /\ CallStep(c, [calls.live[c] EXCEPT !.line = "unanswered"])
        /\ UNCHANGED <<operations, completeEvents>>

\* The callee hangs up: the stop frame of the stream is handled.
CallStreamStops ==
    \E c \in DOMAIN calls.live :
        LET call == calls.live[c]
        IN  /\ call.line = "streaming"
            /\ CallStep(c, [call EXCEPT !.line = "stopped"])
            /\ Commit(IF call.batchId # 0
                      THEN CompleteBatchTarget(Current, call.batchId,
                                               call.phoneNumber)
                      ELSE Current)

\* The call ends without a stop frame: the Twilio socket closes, or
\* OpenAICallHandler.endCall ends the call after a goodbye.
CallStreamDropped ==
    \E c \in DOMAIN calls.live :
        /\ calls.live[c].line = "streaming"
        /\ CallStep(c, [calls.live[c] EXCEPT !.line = "dropped"])
        /\ UNCHANGED <<operations, completeEvents>>

NextCalls ==
    \/ \E provider \in Handlers : MakeBatchCallsFor(provider)
    \/ TwilioCreatesCall
    \/ PlacementResolved
    \/ PlacementRejected
    \/ ChunkAwaited("call")
    \/ DelayElapsed("call")
    \/ CallStreamStarts
    \/ CallNotAnswered
    \/ CallStreamStops
    \/ CallStreamDropped

SpecCalls == Init /\ [][NextCalls]_vars

----------------------------------------------------------------------------
(* Properties *)

Processed(operation) == operation.completedTargets + operation.failedTargets

ResultOf(ops, batchId, phoneNumber) ==
    ops[batchId].results[FindIndex(ops[batchId].results, phoneNumber)]

PhoneNumbers(results) == [i \in 1..Len(results) |-> results[i].phoneNumber]

\* C1: for every batch operation, the status is terminal (completed, failed or
\* partial_complete) if and only if completedTargets + failedTargets equals
\* totalTargets.
C1_TerminalIffAllProcessed ==
    \A batchId \in DOMAIN operations :
        (operations[batchId].status \in TerminalStatus)
            <=> (Processed(operations[batchId]) = operations[batchId].totalTargets)

\* C2: every batch operation publishes its 'complete' event exactly once: one
\* event once every target has finished (whichever operation finished the last
\* one), and never a second one.
C2_CompleteEventExactlyOnce ==
    \A batchId \in DOMAIN operations :
        /\ completeEvents[batchId] <= 1
        /\ (Processed(operations[batchId]) = operations[batchId].totalTargets)
              => completeEvents[batchId] = 1

\* C3: for every batch operation, after any sequence of queue, add, start,
\* complete, fail and retry operations, completedTargets + failedTargets is at
\* most totalTargets.
C3_ProcessedAtMostTotal ==
    \A batchId \in DOMAIN operations :
        Processed(operations[batchId]) <= operations[batchId].totalTargets

\* C4: completedTargets is the number of results whose status is success and
\* failedTargets the number of results whose status is failed, after every
\* operation of the service.
C4_CountersMatchResults ==
    \A batchId \in DOMAIN operations :
        /\ operations[batchId].completedTargets
              = CountStatus(operations[batchId].results, "success")
        /\ operations[batchId].failedTargets
              = CountStatus(operations[batchId].results, "failed")

\* C5: whenever the status of a batch operation is terminal, it is completed
\* if failedTargets is 0, failed if completedTargets is 0, and
\* partial_complete otherwise.
C5_TerminalStatusFollowsCounters ==
    \A batchId \in DOMAIN operations :
        LET operation == operations[batchId]
        IN  operation.status \in TerminalStatus =>
              /\ operation.failedTargets = 0 => operation.status = "completed"
              /\ (operation.failedTargets # 0 /\ operation.completedTargets = 0)
                    => operation.status = "failed"
              /\ (operation.failedTargets # 0 /\ operation.completedTargets # 0)
                    => operation.status = "partial_complete"

\* C6: retrying a target that is present in a batch leaves it in the result
\* collection, at its place, with status retrying, endTime and error cleared,
\* and retryCount exactly one more than before the retry (an absent
\* retryCount counting as 0).
RetriedAsClaimed ==
    (lastOp'.op = "retryBatchTarget" /\ lastOp'.existed) =>
        LET batchId == lastOp'.batchId
            before == ResultOf(operations, batchId, lastOp'.phoneNumber)
            after == ResultOf(operations', batchId, lastOp'.phoneNumber)
        IN  /\ PhoneNumbers(operations'[batchId].results)
                 = PhoneNumbers(operations[batchId].results)
            /\ after.status = "retrying"
            /\ ~after.endTime
            /\ ~after.error
            /\ after.retryCount
                 = (IF before.retryCount < 0 THEN 0 ELSE before.retryCount) + 1

C6_RetryResetsAndCounts == [][RetriedAsClaimed]_vars

\* C6 witness: a target retried twice in a row, its retryCount now 2.
C6_Witness ==
    /\ lastOp.op = "retryBatchTarget"
    /\ lastOp.existed
    /\ ResultOf(operations, lastOp.batchId, lastOp.phoneNumber).status = "retrying"
    /\ ResultOf(operations, lastOp.batchId, lastOp.phoneNumber).retryCount = 2

\* C7: the result collection of a batch is keyed by phone number: it never
\* holds two results for one number, and adding or retrying a result for a
\* number already present overwrites that entry in place.
NoTwoResultsForOneNumber ==
    \A batchId \in DOMAIN operations :
        \A i, j \in 1..Len(operations[batchId].results) :
            operations[batchId].results[i].phoneNumber
                = operations[batchId].results[j].phoneNumber => i = j

OverwrittenInPlace ==
    (/\ lastOp'.op \in {"addBatchResult", "queueBatchTarget", "retryBatchTarget"}
     /\ lastOp'.existed) =>
        PhoneNumbers(operations'[lastOp'.batchId].results)
            = PhoneNumbers(operations[lastOp'.batchId].results)

C7_ResultsKeyedByPhoneNumber ==
    []NoTwoResultsForOneNumber /\ [][OverwrittenInPlace]_vars

\* C7 witness: a result added for the number of the first of two entries.
C7_Witness ==
    /\ lastOp.op = "addBatchResult"
    /\ lastOp.existed
    /\ Len(operations[lastOp.batchId].results) = 2
    /\ operations[lastOp.batchId].results[1].phoneNumber = lastOp.phoneNumber
    /\ operations[lastOp.batchId].results[1].status = "success"

\* The target positions of a batch whose start is in flight, and those whose
\* start has been attempted.
InFlight(batchId) ==
    LET running == loops[submissions[batchId].service]
    IN  UNION {running[n].pending :
                 n \in {m \in DOMAIN running : running[m].batchId = batchId}}

Started(subs, batchId) ==
    IF batchId \in DOMAIN subs
    THEN {k \in 0..(Len(subs[batchId].attempts) - 1) :
             subs[batchId].attempts[k + 1] > 0}
    ELSE {}

Min(a, b) == IF a < b THEN a ELSE b

\* C8: the targets of a batch are started in consecutive chunks of at most
\* maxConcurrent targets: at most maxConcurrent starts are in flight at once,
\* and targets are started only when no start of the batch is in flight, the
\* next (at most maxConcurrent) positions after those already started.
AtMostMaxConcurrentInFlight ==
    \A batchId \in DOMAIN submissions :
        Cardinality(InFlight(batchId)) <= operations[batchId].maxConcurrent

NextChunkAfterWholeChunk ==
    submissions' # submissions =>
    \A batchId \in DOMAIN submissions' :
        LET old == Started(submissions, batchId)
            new == Started(submissions', batchId)
            len == operations'[batchId].totalTargets
            ceiling == operations'[batchId].maxConcurrent
        IN  new # old =>
              /\ batchId \in DOMAIN submissions => InFlight(batchId) = {}
              /\ old = 0..(Cardinality(old) - 1)
              /\ new = 0..(Min(Cardinality(old) + ceiling, len) - 1)

C9_OneDrainLoopInProcess ==
    Len(loops["call"]) + Len(loops["sms"]) <= 1

\* C9, amended: at any time each of the two services (calls, SMS) runs at most
\* one drain loop, however submissions interleave with a running drain.
C9_OneDrainLoopPerService ==
    \A svc \in Services : Len(loops[svc]) <= 1

\* C9 witness: a batch submitted while its service's drain loop was running,
\* which is still the only loop of that service.
C9_Witness ==
    \E batchId \in DOMAIN submissions :
        /\ submissions[batchId].joined
        /\ Len(loops[submissions[batchId].service]) = 1
        /\ QueuePos(batchQueue[submissions[batchId].service], batchId) > 0

Queued(batchId) ==
    /\ batchId \in DOMAIN submissions
    /\ QueuePos(batchQueue[submissions[batchId].service], batchId) > 0

Drained(batchId) ==
    /\ batchId \in DOMAIN submissions
    /\ QueuePos(batchQueue[submissions[batchId].service], batchId) = 0
    /\ \A k \in DOMAIN submissions[batchId].attempts :
          submissions[batchId].attempts[k] >= 1

\* C10: every submitted batch is eventually drained: while a batch is queued
\* a drain loop of its service is running (the loop that was running when it
\* was submitted, or a fresh one), and whatever has been submitted, a time
\* comes when every target of every submitted batch has been attempted and
\* every batch is off the queue.
QueuedBatchHasLoop ==
    \A batchId \in DOMAIN submissions :
        Queued(batchId) => Len(loops[submissions[batchId].service]) >= 1

AllDrained == \A batchId \in DOMAIN submissions : Drained(batchId)

NewlyFailed(batchId) ==
    \E i \in 1..Len(operations[batchId].results) :
        /\ operations[batchId].results[i].status # "failed"
        /\ operations'[batchId].results[i].status = "failed"

FailureLeavesLoopRunning ==
    \A batchId \in DOMAIN submissions :
        NewlyFailed(batchId) =>
            /\ batchQueue' = batchQueue
            /\ isProcessingBatch' = isProcessingBatch
            /\ submissions' = submissions
            /\ \A svc \in Services :
                  /\ Len(loops'[svc]) = Len(loops[svc])
                  /\ \A n \in DOMAIN loops[svc] :
                        /\ loops'[svc][n].pending \subseteq loops[svc][n].pending
                        /\ [loops'[svc][n] EXCEPT !.pending = {}]
                              = [loops[svc][n] EXCEPT !.pending = {}]

NoBatchLeavesUnattempted ==
    \A batchId \in DOMAIN submissions :
        Queued(batchId) \/ \A k \in DOMAIN submissions[batchId].attempts :
                               submissions[batchId].attempts[k] >= 1

C11_TargetFailureIsolated ==
    /\ [][FailureLeavesLoopRunning]_vars
    /\ []QueuedBatchHasLoop
    /\ []NoBatchLeavesUnattempted

\* C11 witness: the first target of a batch has failed and the loop is
\* starting a later chunk of the same batch, with another batch queued behind.
C11_Witness ==
    \E svc \in Services : \E n \in DOMAIN loops[svc] :
        LET loop == loops[svc][n]
        IN  /\ loop.i > 0
            /\ loop.pending # {}
            /\ ResultOf(operations, loop.batchId, loop.targets[1]).status = "failed"
            /\ Len(batchQueue[svc]) = 2

----------------------------------------------------------------------------
(* Barge-in: C12 to C16 *)

\* C12: immediately after a caller-started-speaking event has been handled
\* for a session, the session's response-start timestamp is null and its
\* mark queue is empty.
C12_InterruptionResetsResponseState ==
    (SessionExists /\ session.last = "speechStarted")
        => /\ session.responseStartTimestampTwilio = Null
           /\ session.markQueue = <<>>

\* C13: in every reachable state of a session the response-start timestamp
\* is non-null exactly when an assistant utterance is being relayed to the
\* telephony leg.
C13_TimestampIffRelaying ==
    SessionExists
        => ((session.responseStartTimestampTwilio # Null) <=> session.relaying)

\* C14: a caller-started-speaking event that arrives while an assistant
\* utterance is in flight makes the handler send a clear frame to the
\* telephony leg and a truncate of the last assistant audio item to the
\* provider, at offset latest media timestamp - response-start timestamp.
BargeInClearsAndTruncates ==
    (SessionExists /\ session.relaying /\ session'.last = "speechStarted")
        => /\ "clear" \in session'.sent
           /\ "truncate" \in session'.sent
           /\ session'.truncate =
                  <<session.lastAssistantItemId,
                    session.latestMediaTimestamp
                        - session.responseStartTimestampTwilio>>

C14_BargeInClearsAndTruncates == [][BargeInClearsAndTruncates]_vars

----------------------------------------------------------------------------
(* The end of a call: C17 to C20 *)

\* Nothing of the session is pending: no timer, no update of the call, no
\* fetch of the signed URL and no connection attempt.
Quiescent ==
    /\ session.closeTimers = 0
    /\ session.endCalls = 0
    /\ ~session.initTimer
    /\ session.providerWs # "connecting"
    /\ session.providerWs = "none" => session.connectFailed

\* Both sockets of the session are released.
Released ==
    /\ session.twilioWs = "closed"
    /\ session.providerWs \in {"none", "closed"}

\* C17: the call-ended notification of a call is published exactly once,
\* whichever of hangup, explicit end-call or provider close ends the call and
\* however many of them occur: never more than once, and once when the call
\* has ended and nothing is pending.
C17_CallEndedExactlyOnce ==
    (SessionExists /\ session.callSid)
        => /\ session.endedEvents <= 1
           /\ (session.triggers # {} /\ Quiescent) => session.endedEvents = 1

\* C18: each end trigger -- hangup (stop frame or close of the telephony
\* socket), explicit end-call, closure of the provider connection -- takes
\* the session to closed: once a trigger has occurred and nothing is pending,
\* both sockets are released and the call-ended notification has been
\* published.
C18_EndTriggerClosesSession ==
    (SessionExists /\ session.triggers # {} /\ Quiescent)
        => /\ Released
           /\ session.callSid => session.endedEvents >= 1

\* C19: once both the telephony start frame and the provider's ready signal
\* have occurred, in either order, the provider session is set up for this
\* call; caller audio that arrives before the provider is ready is not
\* forwarded.
C19_ActiveAfterStartAndReady ==
    /\ (SessionExists /\ session.streamSid /\ session.providerWs = "open"
            /\ ~session.initTimer)
           => session.providerSetup = "call"
    /\ (SessionExists /\ session.last = "media" /\ session.providerWs # "open")
           => "callerAudio" \notin session.sent

\* C20: when connecting to the speech provider has failed for a call (the
\* fetch of the signed URL or the socket), an error event is emitted for the
\* call and the call is ended.
C20_ConnectFailureEndsCall ==
    (SessionExists /\ session.connectFailed /\ Quiescent)
        => /\ session.errorEvents >= 1
           /\ session.twilioWs = "closed"

----------------------------------------------------------------------------
(* IVR navigation: C21 to C25 *)

\* C21: in every reachable IVR state of a call, isNavigating and
\* humanDetected are not both true.
C21_NavigatingExcludesHumanDetected ==
    ~(nav.ivrState.isNavigating /\ nav.ivrState.humanDetected)

\* The transcript of the processTranscript call that ran last matches the
\* human-speech heuristics.
HumanTranscriptProcessed ==
    /\ nav.last.op = "processTranscript"
    /\ TranscriptTable[nav.last.transcript].human

HumanDetectedAndTimerCancelled ==
    /\ nav.ivrState.humanDetected
    /\ ~nav.ivrState.isNavigating
    /\ ~nav.ivrTimeout

\* C22 as stated: whatever the navigation state, a transcript that matches
\* the human-speech heuristics sets humanDetected, clears isNavigating and
\* cancels the pending navigation timeout.
C22_HumanTranscriptAlwaysDetected ==
    HumanTranscriptProcessed => HumanDetectedAndTimerCancelled

\* C22 amended: it does so whatever the navigation state unless
\* processTranscript returns a navigation rule for the transcript; a rule
\* that matches while the call is navigating wins over the human heuristics.
C22_HumanTranscriptDetectedUnlessRule ==
    (HumanTranscriptProcessed /\ nav.last.returned = 0)
        => HumanDetectedAndTimerCancelled

\* C22 witness: a human transcript has been processed on a call that has
\* navigated a menu and pressed a digit, and no rule was returned for it.
C22_Witness ==
    /\ HumanTranscriptProcessed
    /\ nav.last.returned = 0
    /\ nav.ivrState.menuLevel >= 1
    /\ Len(nav.ivrState.actionsToken) >= 1
    /\ nav.ivrState.humanDetected

\* The step is a call of processTranscript.
TranscriptStep ==
    /\ nav'.ops = nav.ops + 1
    /\ nav'.last.op = "processTranscript"

\* C23: every transcript that matches a pattern of the IVR-indicator set
\* sets isNavigating, increments menuLevel by one and starts a timeout for
\* that menu level.
IndicatorEntersNextLevel ==
    (TranscriptStep /\ TranscriptTable[nav'.last.transcript].ivr)
        => /\ nav'.ivrState.isNavigating
           /\ nav'.ivrState.menuLevel = nav.ivrState.menuLevel + 1
           /\ nav'.ivrTimeout

C23_IndicatorEntersNextLevel == [][IndicatorEntersNextLevel]_vars

\* The rules whose pattern matches the transcript processed last
MatchingRules == TranscriptTable[nav.last.transcript].rules

\* The rule returned has the highest confidence of the matching rules and is
\* the earliest of those with that confidence; a call that is still
\* navigating afterwards and had a matching rule returned one.
BestRuleReturned ==
    nav.last.op = "processTranscript"
        => /\ nav.last.returned # 0
                => /\ nav.last.returned \in MatchingRules
                   /\ \A k \in MatchingRules :
                         \/ COMMON_IVR_RULES[k].confidence
                                < COMMON_IVR_RULES[nav.last.returned].confidence
                         \/ /\ COMMON_IVR_RULES[k].confidence
                                  = COMMON_IVR_RULES[nav.last.returned].confidence
                            /\ k >= nav.last.returned
           /\ (nav.ivrState.isNavigating /\ MatchingRules # {})
                => nav.last.returned # 0

\* A call of processTranscript that returns a rule appends the first 50
\* characters of the transcript and the rule's digit to the history; one
\* that returns none leaves the history alone.
HistoryAppended ==
    TranscriptStep
        => LET t == nav'.last.transcript
               rule == nav'.last.returned
               kept == IF TranscriptTable[t].length > 50
                       THEN 50
                       ELSE TranscriptTable[t].length
           IN  IF rule # 0
               THEN /\ nav'.ivrState.optionsHeard
                          = nav.ivrState.optionsHeard
                                \o <<[of |-> t, length |-> kept]>>
                    /\ nav'.ivrState.actionsToken
                          = nav.ivrState.actionsToken
                                \o <<COMMON_IVR_RULES[rule].action>>
               ELSE /\ nav'.ivrState.optionsHeard = nav.ivrState.optionsHeard
                    /\ nav'.ivrState.actionsToken = nav.ivrState.actionsToken

\* C24: the rule returned for a transcript is one of highest confidence
\* among the matching rules, the earliest in the list among equals, and the
\* matched snippet and the rule's digit are appended to the navigation
\* history.
C24_BestRuleWinsAndIsRecorded ==
    /\ []BestRuleReturned
    /\ [][HistoryAppended]_vars

\* C24 witness: a rule was returned although a rule of lower confidence
\* stands earlier in the list and matches too, and the digit is the last
\* entry of the history.
C24_Witness ==
    /\ nav.last.op = "processTranscript"
    /\ nav.last.returned # 0
    /\ \E k \in MatchingRules : k < nav.last.returned
    /\ Len(nav.ivrState.actionsToken) >= 1
    /\ nav.ivrState.actionsToken[Len(nav.ivrState.actionsToken)]
           = COMMON_IVR_RULES[nav.last.returned].action

\* C25: when the navigation timeout elapses, a default-action event with the
\* configured default digit is emitted if the call is navigating and no rule
\* has matched and no human has been detected in that menu level, and only
\* then.
C25_TimeoutEmitsDefaultActionWhenQuiet ==
    nav.last.op = "ivrTimeout"
        => /\ "ivrTimeout" \in nav.emitted
                <=> (nav.ivrState.isNavigating /\ nav.quiet)
           /\ "ivrTimeout" \in nav.emitted => nav.last.action = DefaultAction

----------------------------------------------------------------------------
(* Provider switch: C26 to C29 *)

\* The step is the callback of the navigation timer and emits the
\* default-action event.
TimeoutEventStep ==
    /\ nav.ivrTimeout
    /\ nav'.last.op = "ivrTimeout"
    /\ "ivrTimeout" \in nav'.emitted

\* The step carries on a switchToElevenLabs that was waiting.
SwitchStep == Len(nav'.switches) < Len(nav.switches)

\* C26: after a call has ended, no navigation-timeout event fires for it and
\* no step of a pending provider switch is carried out for it.
NothingAfterCallEnded ==
    nav.ended => (~TimeoutEventStep /\ ~SwitchStep)

C26_EndingCancelsTimeoutAndSwitch == [][NothingAfterCallEnded]_vars

\* An activation of switchToElevenLabs has returned in the last step.
SwitchReturned == nav.switched # <<>>

\* The switch started a new target connection and no open connection came
\* of it.
OpenFailed ==
    /\ nav.switched.started = 1
    /\ nav.switched.target # "open"

\* C27: when opening the new provider connection fails during a switch, the
\* switch aborts, an error event is emitted, and the old connection, if it
\* was open when the switch began, is still open afterwards.
C27_FailedOpenKeepsOldConnection ==
    (SwitchReturned /\ OpenFailed)
        => /\ ~nav.switched.result
           /\ "error" \in nav.emitted
           /\ nav.switched.oldBefore = "open" => nav.switched.oldAfter = "open"

\* C28: a successful switch delivers the navigation context summary to the
\* new provider exactly once, whether the target connection was reused or
\* newly opened.
C28_ContextDeliveredOnce ==
    (SwitchReturned /\ nav.switched.result)
        => nav.switched.contextSent = 1

\* C29: a switch reuses the target connection when one is open and starts
\* exactly one new connection otherwise; when it reports success, an open
\* target connection is registered as the call's active one and the old
\* socket is closed.
C29_SwitchLeavesOpenTargetRegistered ==
    (SwitchReturned /\ nav.switched.result)
        => /\ nav.switched.started
                = (IF nav.switched.targetBefore = "open" THEN 0 ELSE 1)
           /\ nav.switched.target = "open"
           /\ nav.switched.oldBefore # "undefined"
                => nav.switched.oldAfter = "closed"

----------------------------------------------------------------------------
(* Registries: C30 *)

\* The session of stream ws is the one the map holds under its key.
SessionRegistered(r, ws) ==
    /\ GetSessionKey(ws) \in DOMAIN r.activeSessions
    /\ r.activeSessions[GetSessionKey(ws)] = ws

NoSharedSessionKey ==
    \A ws1, ws2 \in 1..MaxSockets :
        (/\ ws1 # ws2
         /\ registry.sockets[ws1] = "open"
         /\ registry.sockets[ws2] = "open")
            => GetSessionKey(ws1) # GetSessionKey(ws2)

\* A step leaves the entries of the calls that stay active as they are.
OtherEntriesKept ==
    \A ws \in 1..MaxSockets :
        (/\ registry.sockets[ws] = "open"
         /\ registry'.sockets[ws] = "open")
            => /\ SessionRegistered(registry, ws)
                    => SessionRegistered(registry', ws)
               /\ \A provider \in registry.activeConnections[ws] :
                     \/ provider \in registry'.activeConnections[ws]
                     \/ registry'.activeConnections
                            = [registry.activeConnections EXCEPT ![ws] = {}]

\* C30: no two concurrently active calls share a key of a process-wide
\* registry, and registering or removing one call's entry never overwrites
\* or removes the entry of another active call.
C30_NoSharedRegistryKey ==
    /\ []NoSharedSessionKey
    /\ [][OtherEntriesKept]_vars

----------------------------------------------------------------------------
(* Provider adapter of ElevenLabs: C31 *)

\* C31: the handler of a ping frame that carries an event id sends exactly
\* one pong frame with that event id and does nothing else: no frame goes to
\* the telephony leg or to the provider besides the pong, and no field of
\* the session changes.
C31_PingAnsweredByOnePong ==
    [][(session'.handler # "none" /\ session'.last = "ping"
            /\ session'.ping # "")
        => session' = [Handling(session, "ping") EXCEPT
                           !.ping = session'.ping,
                           !.pongs = <<session'.ping>>]]_vars

C31_Witness ==
    /\ session.handler = "elevenlabs"
    /\ session.last = "ping"
    /\ session.ping = "abc"
    /\ session.pongs = <<"abc">>
    /\ session.streamSid

----------------------------------------------------------------------------
(* IVR navigation: C32 *)

\* C32: no step of a call makes its menuLevel smaller.
C32_MenuLevelNeverDecreases ==
    [][nav'.ivrState.menuLevel >= nav.ivrState.menuLevel]_vars

\* The call has entered IVR mode twice, with a human detected in between.
C32_Witness ==
    /\ nav.ivrState.menuLevel = 2
    /\ nav.ivrState.isNavigating
    /\ nav.last.op = "processTranscript"

----------------------------------------------------------------------------
(* Batch status and retry count: C34, C36 *)

TerminalStatusKept ==
    \A batchId \in DOMAIN operations :
        operations[batchId].status \in TerminalStatus
            => operations'[batchId].status = operations[batchId].status

\* C34: a batch operation whose status is terminal keeps that status in
\* every later step: no result update, status update or retry changes it.
C34_TerminalStatusIsFinal == [][TerminalStatusKept]_vars

\* A start, complete, fail or retry of a target that is among the results.
TargetUpdated(ops) ==
    /\ lastOp'.seq # lastOp.seq
    /\ lastOp'.op \in ops
    /\ lastOp'.existed

RetryCountKept ==
    TargetUpdated({"startBatchTarget", "completeBatchTarget",
                   "failBatchTarget"}) =>
        ResultOf(operations', lastOp'.batchId, lastOp'.phoneNumber).retryCount
            = ResultOf(operations, lastOp'.batchId, lastOp'.phoneNumber).retryCount

RetryCountNotDecreased ==
    TargetUpdated({"startBatchTarget", "completeBatchTarget",
                   "failBatchTarget", "retryBatchTarget"}) =>
        ResultOf(operations', lastOp'.batchId, lastOp'.phoneNumber).retryCount
            >= ResultOf(operations, lastOp'.batchId, lastOp'.phoneNumber).retryCount

\* C36: starting, completing or failing a target leaves the retryCount of
\* its result as it was, and no update of a target makes it smaller.
C36_RetryCountChangedOnlyByRetry ==
    [][RetryCountKept /\ RetryCountNotDecreased]_vars

----------------------------------------------------------------------------
(* Teardown of a batch call: C37 *)

\* The stop frame of a batch call has been handled, and the batch service
\* did not know the batch or had no result for the call's number.
BookkeepingFailedAtStop ==
    /\ SessionExists
    /\ session.last = "stop"
    /\ session.batchId # 0
    /\ UpdateBatchResultThrows(Current, session.batchId, ToNumber)

\* C37: a failure of the batch bookkeeping during the teardown of a call
\* does not keep the call from being torn down: the call-ended notification
\* has been published and the provider socket is released.
C37_BookkeepingFailureKeepsTeardown ==
    BookkeepingFailedAtStop
        => /\ session.endedEvents >= 1
           /\ session.providerWs # "open"

----------------------------------------------------------------------------
(* Calls of a batch: C33, C35, C39 *)

CallBatches ==
    {batchId \in DOMAIN operations : operations[batchId].type = "call"}

\* C35: at no time are more targets of one call batch in status in_progress
\* than the maxConcurrent of the batch (1 when the request gave none): the
\* ceiling bounds the live calls of a batch, not only its placements.
C35_InProgressWithinCeiling ==
    \A batchId \in CallBatches :
        CountStatus(operations[batchId].results, "in_progress")
            <= operations[batchId].maxConcurrent

\* Every call Twilio created for the batch has been placed and has ended.
CallsOver(batchId) ==
    \A c \in DOMAIN calls.live :
        calls.live[c].batch = batchId
            => /\ calls.live[c].placed
               /\ calls.live[c].line \in {"unanswered", "stopped", "dropped"}

ResultsFinal(batchId) ==
    \A i \in DOMAIN operations[batchId].results :
        operations[batchId].results[i].status \in {"success", "failed"}

\* C33: once a call batch is off the queue with every target attempted and
\* every call started for it has ended, by whatever means, every result of
\* the batch is success or failed and the status of the batch is completed,
\* failed or partial_complete.
C33_EndedBatchIsTerminal ==
    \A batchId \in CallBatches :
        (Drained(batchId) /\ CallsOver(batchId))
            => /\ ResultsFinal(batchId)
               /\ operations[batchId].status \in TerminalStatus

\* C39: for every call at most one transcript is ever created, in whichever
\* order the continuation of the placement and the start frame of the call's
\* stream run.
C39_OneTranscriptPerCall ==
    \A c \in DOMAIN calls.live : calls.live[c].transcripts <= 1

----------------------------------------------------------------------------
(* Draining under any maxConcurrent: C40 *)

DrainedOnce(batchId) ==
    /\ Drained(batchId)
    /\ \A k \in DOMAIN submissions[batchId].attempts :
          submissions[batchId].attempts[k] = 1
    /\ ~isProcessingBatch[submissions[batchId].service]

\* C40: draining terminates for every submitted batch whatever maxConcurrent
\* was supplied, absent, zero, negative or positive: a time comes from which
\* every target of every submitted batch has been attempted exactly once,
\* every batch is off its queue and the processing flags are false.
C40_DrainingTerminates ==
    <>[](\A batchId \in DOMAIN submissions : DrainedOnce(batchId))

----------------------------------------------------------------------------
(* DTMF sends scheduled by the assistant's acknowledgment: C38 *)

\* The call has ended: its end was published, its stop frame was handled, or
\* its Twilio socket is no longer open.
CallHasEnded ==
    \/ session.endedEvents >= 1
    \/ "hangup" \in session.triggers
    \/ "endCall" \in session.triggers
    \/ session.twilioWs # "open"

\* C38: no DTMF frame is sent for a call after the call has ended or its
\* Twilio socket has closed: a DTMF send scheduled after an acknowledgment
\* of the assistant is cancelled or suppressed when the call ends before the
\* delay has elapsed.
C38_NoDtmfAfterCallEnded ==
    (SessionExists /\ session.last = "dtmfTimer" /\ CallHasEnded)
        => "dtmf" \notin session.sent

====
